---- MODULE Spec2Model ----
(***************************************************************************)
(* Tier-decision engine of the model optimizer: the rule classifier        *)
(* (RuleEngine), the usage ledger (CostTracker), the session memory        *)
(* (ConversationMemoryTracker) and the tool handlers that drive the        *)
(* dispatcher state (ServerState).                                         *)
(*                                                                         *)
(* Text is a sequence of one-character strings, so that substring tests    *)
(* and lower-casing are computed as String.includes and toLowerCase do.    *)
(* Money is counted in cents, time in minutes.                             *)
(***************************************************************************)
EXTENDS Integers, Sequences, FiniteSets, TLC

VARIABLES
  currentTier,     \* ServerState.currentTier
  strategy,        \* ServerState.strategy
  autoMode,        \* ServerState.autoMode
  ruleStrategy,    \* RuleEngine.strategy
  errorWindow,     \* RuleEngine.errorWindow: sequence of timestamps
  rules,           \* RuleEngine.config (config.rules), fixed at startup
  modelConfig,     \* config.providers and config.defaults.tier_models, fixed at startup
  requests,        \* the calls submitted to the server and the order they were handled in
  budget,          \* config.budget, or None when not configured
  usage,           \* CostTracker.data: [records, monthly_totals]
  memory,          \* ConversationMemoryTracker.data plus its two capacities
  now,             \* the clock read by new Date()
  last             \* what the last call was given and what it returned

vars == << currentTier, strategy, autoMode, ruleStrategy, errorWindow, rules,
           modelConfig, requests, budget, usage, memory, now, last >>

None == "none"

------------------------------------------------------------------------------
(* Bounds of the model *)

MaxErrors == 3         \* recordError calls kept in the window at once
MaxRecords == 1        \* ledger records
MaxLedgerRecords == 3  \* ledger records, where the ledger is what is checked
MaxMonths == 1         \* month boundaries the clock crosses
MaxSessionStarts == 4  \* sessions a tracker starts
MaxRequests == 3       \* calls submitted to one server
MaxCallDepth == 3      \* nested calls the call stack holds
MaxClock == 60         \* minutes the clock runs, where the error window is checked

------------------------------------------------------------------------------
(* Types *)

StrategyTypes == {"2-tier", "3-tier"}

Tiers == {"primary", "critical", "tier1", "tier2", "tier3"}

------------------------------------------------------------------------------
(* Text *)

UpperCase == <<"A","B","C","D","E","F","G","H","I","J","K","L","M","N","O","P","Q","R","S","T","U","V","W","X","Y","Z">>

LowerCase == <<"a","b","c","d","e","f","g","h","i","j","k","l","m","n","o","p","q","r","s","t","u","v","w","x","y","z">>


toLowerCaseChar(c) ==
  IF \E i \in 1..Len(UpperCase) : UpperCase[i] = c
  THEN LowerCase[CHOOSE i \in 1..Len(UpperCase) : UpperCase[i] = c]
  ELSE c

toLowerCase(s) == [i \in 1..Len(s) |-> toLowerCaseChar(s[i])]

includes(s, p) ==
  \E i \in 0..(Len(s) - Len(p)) : SubSeq(s, i + 1, i + Len(p)) = p

trim(s) ==
  IF \A i \in 1..Len(s) : s[i] = " " THEN << >>
  ELSE LET a == CHOOSE i \in 1..Len(s) :
                  s[i] # " " /\ \A j \in 1..(i - 1) : s[j] = " "
           b == CHOOSE i \in 1..Len(s) :
                  s[i] # " " /\ \A j \in (i + 1)..Len(s) : s[j] = " "
       IN SubSeq(s, a, b)

TierText ==
  [ primary |-> <<"p","r","i","m","a","r","y">>,
    critical |-> <<"c","r","i","t","i","c","a","l">>,
    tier1 |-> <<"t","i","e","r","1">>,
    tier2 |-> <<"t","i","e","r","2">>,
    tier3 |-> <<"t","i","e","r","3">> ]

TierSwitchPrefix == <<"t","i","e","r","_","s","w","i","t","c","h",":">>

TierSwitchArrow == <<"-",">">>

(* The task texts the calls are made with *)
TaskText ==
  [ review_architecture |-> <<"R","e","v","i","e","w"," ","t","h","i","s"," ","a","r","c","h","i","t","e","c","t","u","r","e"," ","a","n","d"," ","p","r","o","p","o","s","e"," ","i","m","p","r","o","v","e","m","e","n","t","s">>,
    design_security |-> <<"d","e","s","i","g","n"," ","t","h","e"," ","s","e","c","u","r","i","t","y"," ","m","o","d","e","l">>,
    design_logo |-> <<"D","e","s","i","g","n"," ","t","h","e"," ","l","o","g","o">>,
    fix_security |-> <<"F","I","X"," ","t","h","e"," ","S","e","c","u","r","i","t","y"," ","b","u","g">>,
    find_and_fix |-> <<"f","i","n","d"," ","a","n","d"," ","f","i","x">>,
    fix_architecture |-> <<"F","i","x"," ","t","h","e"," ","a","r","c","h","i","t","e","c","t","u","r","e">>,
    list_files |-> <<"l","i","s","t"," ","f","i","l","e","s">>,
    show_status |-> <<"s","h","o","w"," ","s","t","a","t","u","s">>,
    write_tests |-> <<"w","r","i","t","e"," ","t","e","s","t","s">>,
    hello |-> <<"h","e","l","l","o">>,
    blank |-> <<" ">> ]

Tasks == DOMAIN TaskText

(* `tier_switch:${fromTier}->${toTier}` *)
tierSwitchText(fromTier, toTier) ==
  TierSwitchPrefix \o TierText[fromTier] \o TierSwitchArrow \o TierText[toTier]

(* Every text the calls of the model hand to the engine or the tracker *)
Texts ==
  { TaskText[t] : t \in Tasks }
    \cup { tierSwitchText(f, t) : f \in Tiers, t \in Tiers }

------------------------------------------------------------------------------
(* Default configuration *)

KeywordRuleTable ==
  [ architecture_keywords |->
      [ name |-> "architecture_keywords",
        patterns |-> << <<"a","r","c","h","i","t","e","c","t","u","r","e">>,
                      <<"d","e","s","i","g","n"," ","d","e","c","i","s","i","o","n">>,
                      <<"s","y","s","t","e","m"," ","d","e","s","i","g","n">>,
                      <<"r","e","f","a","c","t","o","r">>,
                      <<"r","e","s","t","r","u","c","t","u","r","e">> >>,
        target_tier |-> [s \in StrategyTypes |-> IF s = "2-tier" THEN "critical" ELSE "tier3"],
        priority |-> 100 ],
    security_keywords |->
      [ name |-> "security_keywords",
        patterns |-> << <<"s","e","c","u","r","i","t","y">>,
                      <<"a","u","t","h","e","n","t","i","c","a","t","i","o","n">>,
                      <<"a","u","t","h","o","r","i","z","a","t","i","o","n">>,
                      <<"v","u","l","n","e","r","a","b","i","l","i","t","y">>,
                      <<"e","n","c","r","y","p","t","i","o","n">> >>,
        target_tier |-> [s \in StrategyTypes |-> IF s = "2-tier" THEN "critical" ELSE "tier3"],
        priority |-> 90 ],
    exploration_keywords |->
      [ name |-> "exploration_keywords",
        patterns |-> << <<"e","x","p","l","o","r","e">>,
                      <<"s","e","a","r","c","h">>,
                      <<"f","i","n","d">>,
                      <<"l","i","s","t">>,
                      <<"w","h","a","t"," ","i","s">>,
                      <<"h","o","w"," ","t","o">> >>,
        target_tier |-> [s \in StrategyTypes |-> IF s = "2-tier" THEN "primary" ELSE "tier1"],
        priority |-> 50 ],
    implementation_keywords |->
      [ name |-> "implementation_keywords",
        patterns |-> << <<"i","m","p","l","e","m","e","n","t">>,
                      <<"c","o","d","e">>,
                      <<"c","r","e","a","t","e">>,
                      <<"a","d","d">>,
                      <<"f","i","x">>,
                      <<"d","e","b","u","g">> >>,
        target_tier |-> [s \in StrategyTypes |-> IF s = "2-tier" THEN "primary" ELSE "tier2"],
        priority |-> 60 ] ]

RuleNames == DOMAIN KeywordRuleTable

simple_task_patterns ==
  << <<"l","i","s","t"," ","f","i","l","e","s">>,
     <<"s","h","o","w"," ","s","t","a","t","u","s">>,
     <<"g","e","t"," ","i","n","f","o">>,
     <<"r","e","a","d"," ","f","i","l","e">> >>

ErrorThreshold == 3

WindowMinutes == 30

ErrorEscalationPriority == 200

CostOptimizationPriority == 10

MemoryPriority == 30

DefaultRuleOrder ==
  << "architecture_keywords", "security_keywords",
     "exploration_keywords", "implementation_keywords" >>

(* Keyword rules a user configuration adds to the default ones: the same *)
(* pattern and targets under three priorities, below, at and above the   *)
(* priority of error escalation                                          *)
customRule(name, priority) ==
  [ name |-> name,
    patterns |-> << <<"f","i","x">> >>,
    target_tier |-> [s \in StrategyTypes |-> IF s = "2-tier" THEN "primary" ELSE "tier1"],
    priority |-> priority ]

CustomRuleTable ==
  [ my_fix_tasks_150 |-> customRule("my_fix_tasks_150", 150),
    my_fix_tasks_200 |-> customRule("my_fix_tasks_200", 200),
    my_fix_tasks_250 |-> customRule("my_fix_tasks_250", 250) ]

(* Every rule a configuration of the model may declare, by name *)
RuleTable == KeywordRuleTable @@ CustomRuleTable

DefaultRules ==
  [ keyword_rules |-> DefaultRuleOrder,
    error_escalation |->
      [ enabled |-> TRUE, threshold |-> ErrorThreshold,
        window_minutes |-> WindowMinutes ],
    cost_optimization |-> [ enabled |-> TRUE ] ]

------------------------------------------------------------------------------
(* ConversationMemoryTracker.  An entry keeps the fields the tracker reads: *)
(* task_pattern, tier_used and success (timestamps and the free-form        *)
(* context are written and never read).  Session ids are drawn from a       *)
(* counter, next_id, in place of randomUUID.                                *)

CategoryPatterns ==
  << [ match |-> << <<"a","r","c","h","i","t","e","c","t">> >>, pattern |-> "architecture" ],
     [ match |-> << <<"d","e","s","i","g","n">> >>, pattern |-> "design" ],
     [ match |-> << <<"s","e","c","u","r","i","t","y">> >>, pattern |-> "security" ],
     [ match |-> << <<"r","e","f","a","c","t","o","r">> >>, pattern |-> "refactor" ],
     [ match |-> << <<"i","m","p","l","e","m","e","n","t">> >>, pattern |-> "implementation" ],
     [ match |-> << <<"c","r","e","a","t","e">>,
                   <<"a","d","d">> >>, pattern |-> "creation" ],
     [ match |-> << <<"f","i","x">>,
                   <<"b","u","g">>,
                   <<"d","e","b","u","g">> >>, pattern |-> "bugfix" ],
     [ match |-> << <<"e","x","p","l","o","r","e">>,
                   <<"s","e","a","r","c","h">>,
                   <<"f","i","n","d">> >>, pattern |-> "exploration" ],
     [ match |-> << <<"t","e","s","t">> >>, pattern |-> "testing" ],
     [ match |-> << <<"d","o","c","u","m","e","n","t">> >>, pattern |-> "documentation" ] >>

NoSession == 0

extractPattern(task) ==
  LET lowered == toLowerCase(task)
      hits == { i \in 1..Len(CategoryPatterns) :
                  \E k \in 1..Len(CategoryPatterns[i].match) :
                     includes(lowered, CategoryPatterns[i].match[k]) }
  IN IF hits = {} THEN "general"
     ELSE CategoryPatterns[CHOOSE i \in hits : \A j \in hits : i <= j].pattern

(* extractPattern, computed once for each text *)
PatternOf == [ s \in Texts |-> extractPattern(s) ]

(* getCurrentSession that takes the oldest retained session *)
getCurrentSession_Oldest(mem) ==
  IF mem.current_session_id = NoSession \/ mem.sessions = << >> THEN NoSession
  ELSE 1

(* The index in mem.sessions of the current session; NoSession for null *)
getCurrentSession(mem) ==
  IF mem.current_session_id = NoSession THEN NoSession
  ELSE LET found == { i \in 1..Len(mem.sessions) :
                        mem.sessions[i].session_id = mem.current_session_id }
       IN IF found = {} THEN NoSession
          ELSE CHOOSE i \in found : \A j \in found : i <= j

RECURSIVE shiftWhileOver(_, _)
shiftWhileOver(s, cap) ==
  IF Len(s) > cap THEN shiftWhileOver(Tail(s), cap) ELSE s

(* startNewSession that prunes from the end of the list *)
startNewSession_PopNewest(mem) ==
  LET session == [ session_id |-> mem.next_id, entries |-> << >> ]
      all == Append(mem.sessions, session)
  IN [ mem EXCEPT
         !.sessions = IF Len(all) > mem.maxSessions
                      THEN SubSeq(all, 1, mem.maxSessions) ELSE all,
         !.current_session_id = mem.next_id,
         !.next_id = mem.next_id + 1 ]

startNewSession(mem) ==
  LET session == [ session_id |-> mem.next_id, entries |-> << >> ]
  IN [ mem EXCEPT
         !.sessions = shiftWhileOver(Append(mem.sessions, session), mem.maxSessions),
         !.current_session_id = mem.next_id,
         !.next_id = mem.next_id + 1 ]

(* pushEntry that refuses the new entry when the session is full *)
pushEntry_KeepOldest(mem, i, entry) ==
  [ mem EXCEPT
      !.sessions[i].entries =
         IF Len(mem.sessions[i].entries) >= mem.maxEntriesPerSession
         THEN mem.sessions[i].entries
         ELSE Append(mem.sessions[i].entries, entry) ]

(* recordTask once a current session exists: push, then shift while over *)
pushEntry(mem, i, entry) ==
  [ mem EXCEPT
      !.sessions[i].entries =
         shiftWhileOver(Append(mem.sessions[i].entries, entry),
                        mem.maxEntriesPerSession) ]

(* recordTask that stores every outcome as a failure *)
recordTask_AsFailure(mem0, taskPattern, tierUsed, success) ==
  LET mem == IF getCurrentSession(mem0) = NoSession THEN startNewSession(mem0) ELSE mem0
  IN pushEntry(mem, getCurrentSession(mem),
               [ task_pattern |-> PatternOf[taskPattern],
                 tier_used |-> tierUsed,
                 success |-> FALSE ])

recordTask(mem0, taskPattern, tierUsed, success) ==
  \* without a current session: startNewSession, then recordTask again
  LET mem == IF getCurrentSession(mem0) = NoSession THEN startNewSession(mem0) ELSE mem0
  IN pushEntry(mem, getCurrentSession(mem),
               [ task_pattern |-> PatternOf[taskPattern],
                 tier_used |-> tierUsed,
                 success |-> success ])

(* recordTierSwitch that only logs the switch *)
recordTierSwitch_Unrecorded(mem, fromTier, toTier) == mem

(* recordTierSwitch that records the tier that was left *)
recordTierSwitch_OldTier(mem, fromTier, toTier) ==
  recordTask(mem, tierSwitchText(fromTier, toTier), fromTier, TRUE)

recordTierSwitch(mem, fromTier, toTier) ==
  recordTask(mem, tierSwitchText(fromTier, toTier), toTier, TRUE)

(* Object.entries(tierCounts): the tiers in the order they were first met *)
RECURSIVE firstSeenOrder(_)
firstSeenOrder(es) ==
  IF es = << >> THEN << >>
  ELSE LET front == firstSeenOrder(SubSeq(es, 1, Len(es) - 1))
           t == es[Len(es)].tier_used
       IN IF \E k \in 1..Len(front) : front[k] = t THEN front ELSE Append(front, t)

countOf(es, t) == Cardinality({ k \in 1..Len(es) : es[k].tier_used = t })

(* entries.sort((a, b) => b[1] - a[1])[0][0]: the first key, in insertion *)
(* order, of the greatest count                                            *)
mostUsed(relevantEntries, keys) ==
  keys[CHOOSE k \in 1..Len(keys) :
         /\ \A j \in 1..Len(keys) :
               countOf(relevantEntries, keys[j]) <= countOf(relevantEntries, keys[k])
         /\ \A j \in 1..(k - 1) :
               countOf(relevantEntries, keys[j]) < countOf(relevantEntries, keys[k])]

recommendFrom(relevantEntries) ==
  IF relevantEntries = << >> THEN None
  ELSE mostUsed(relevantEntries, firstSeenOrder(relevantEntries))

(* relevantIn that does not look at the success flag *)
relevantIn_AnyOutcome(entries, pattern) ==
  SelectSeq(entries, LAMBDA e : e.task_pattern = pattern)

relevantIn(entries, pattern) ==
  SelectSeq(entries, LAMBDA e : e.task_pattern = pattern /\ e.success)

sessionRecommendation(mem, i, pattern) ==
  IF i = NoSession THEN None
  ELSE recommendFrom(relevantIn(mem.sessions[i].entries, pattern))

getRecommendedTier(mem, task) ==
  sessionRecommendation(mem, getCurrentSession(mem), PatternOf[task])

(* The summary getSessionSummary builds of a session; success_rate is     *)
(* Math.round(successCount / length * 100)                                 *)
summaryOf(session) ==
  LET es == session.entries
      n == Len(es)
      successCount == Cardinality({ k \in 1..n : es[k].success })
  IN [ session_id |-> session.session_id,
       entry_count |-> n,
       patterns |-> [ p \in { es[k].task_pattern : k \in 1..n } |->
                        Cardinality({ k \in 1..n : es[k].task_pattern = p }) ],
       tier_usage |-> [ t \in { es[k].tier_used : k \in 1..n } |->
                          Cardinality({ k \in 1..n : es[k].tier_used = t }) ],
       success_rate |-> IF n > 0 THEN (200 * successCount + n) \div (2 * n) ELSE 0 ]

(* getSessionSummary; a summary without session_id stands for null *)
getSessionSummary(mem) ==
  IF getCurrentSession(mem) = NoSession THEN [ entry_count |-> 0 ]
  ELSE summaryOf(mem.sessions[getCurrentSession(mem)])

------------------------------------------------------------------------------
(* RuleEngine *)

getAvailableTiers(s) ==
  IF s = "2-tier" THEN << "primary", "critical" >>
  ELSE << "tier1", "tier2", "tier3" >>

isValidTier(s, tier) ==
  \E k \in 1..Len(getAvailableTiers(s)) : getAvailableTiers(s)[k] = tier

getDefaultTier(s) == IF s = "2-tier" THEN "primary" ELSE "tier1"

(* getEscalatedTier with one escalation map shared by both strategies *)
getEscalatedTier_SharedMap(s, tier) ==
  IF tier = "primary" THEN "critical"
  ELSE IF tier = "critical" THEN "tier3"
  ELSE IF tier = "tier1" THEN "tier2"
  ELSE IF tier = "tier2" THEN "tier3" ELSE None

getEscalatedTier(s, tier) ==
  IF s = "2-tier"
  THEN (IF tier = "primary" THEN "critical" ELSE None)
  ELSE (IF tier = "tier1" THEN "tier2"
        ELSE IF tier = "tier2" THEN "tier3" ELSE None)

(* cleanErrorWindow that purges nothing *)
cleanErrorWindow_KeepAll(cfg, window, t) == window

cleanErrorWindow(cfg, window, t) ==
  SelectSeq(window, LAMBDA d : d > t - cfg.error_escalation.window_minutes)

(* The first pattern of the rule that the lower-cased task contains, as an *)
(* index into rule.patterns; 0 when there is none.                         *)
firstPattern(rule, taskLower) ==
  LET hits == { k \in 1..Len(rule.patterns) :
                  includes(taskLower, toLowerCase(rule.patterns[k])) }
  IN IF hits = {} THEN 0 ELSE CHOOSE k \in hits : \A j \in hits : k <= j

(* firstPattern, computed once for each rule and text *)
FirstPatternOf ==
  [ r \in DOMAIN RuleTable, s \in Texts |-> firstPattern(RuleTable[r], toLowerCase(s)) ]

RECURSIVE keywordMatches(_, _, _)
keywordMatches(order, task, s) ==
  IF order = << >> THEN << >>
  ELSE LET rule == RuleTable[Head(order)]
           k == FirstPatternOf[Head(order), task]
           rest == keywordMatches(Tail(order), task, s)
       IN IF k # 0 /\ rule.target_tier[s] # None
          THEN << [ rule_name |-> rule.name,
                    matched_pattern |-> rule.patterns[k],
                    target_tier |-> rule.target_tier[s],
                    priority |-> rule.priority,
                    reason |-> << "Matched pattern in", rule.name >> ] >> \o rest
          ELSE rest

(* escalationMatches whose match ranks below every keyword rule *)
escalationMatches_LowPriority(cfg, window, s, tier) ==
  IF cfg.error_escalation.enabled
     /\ Len(window) >= cfg.error_escalation.threshold
     /\ getEscalatedTier(s, tier) # None
  THEN << [ rule_name |-> "error_escalation",
            matched_pattern |-> << >>,
            target_tier |-> getEscalatedTier(s, tier),
            priority |-> 1,
            reason |-> << "errors in last minutes" >> ] >>
  ELSE << >>

escalationMatches(cfg, window, s, tier) ==
  IF cfg.error_escalation.enabled
     /\ Len(window) >= cfg.error_escalation.threshold
     /\ getEscalatedTier(s, tier) # None
  THEN << [ rule_name |-> "error_escalation",
            matched_pattern |-> << >>,
            target_tier |-> getEscalatedTier(s, tier),
            priority |-> ErrorEscalationPriority,
            reason |-> << "errors in last minutes" >> ] >>
  ELSE << >>

(* The first simple-task pattern the lower-cased task contains, as an     *)
(* index into simple_task_patterns; 0 when there is none.                *)
firstSimplePattern(taskLower) ==
  LET hits == { k \in 1..Len(simple_task_patterns) :
                  includes(taskLower, toLowerCase(simple_task_patterns[k])) }
  IN IF hits = {} THEN 0 ELSE CHOOSE k \in hits : \A j \in hits : k <= j

FirstSimplePatternOf == [ s \in Texts |-> firstSimplePattern(toLowerCase(s)) ]

(* costOptimizationMatches that does not look at enabled *)
costOptimizationMatches_IgnoreEnabled(cfg, task, s) ==
  LET k == FirstSimplePatternOf[task]
  IN IF k # 0
     THEN << [ rule_name |-> "cost_optimization",
               matched_pattern |-> simple_task_patterns[k],
               target_tier |-> IF s = "2-tier" THEN "primary" ELSE "tier1",
               priority |-> CostOptimizationPriority,
               reason |-> << "Simple task detected - using lowest cost tier" >> ] >>
     ELSE << >>

costOptimizationMatches(cfg, task, s) ==
  LET k == FirstSimplePatternOf[task]
  IN IF cfg.cost_optimization.enabled /\ k # 0
     THEN << [ rule_name |-> "cost_optimization",
               matched_pattern |-> simple_task_patterns[k],
               target_tier |-> IF s = "2-tier" THEN "primary" ELSE "tier1",
               priority |-> CostOptimizationPriority,
               reason |-> << "Simple task detected - using lowest cost tier" >> ] >>
     ELSE << >>

(* memoryMatches without the isValidTier test *)
memoryMatches_Unchecked(mem, task, s) ==
  LET memoryRecommendation == getRecommendedTier(mem, task)
  IN IF memoryRecommendation # None
     THEN << [ rule_name |-> "memory_based",
               matched_pattern |-> << >>,
               target_tier |-> memoryRecommendation,
               priority |-> MemoryPriority,
               reason |-> << "Based on previous similar tasks" >> ] >>
     ELSE << >>

memoryMatches(mem, task, s) ==
  LET memoryRecommendation == getRecommendedTier(mem, task)
  IN IF memoryRecommendation # None /\ isValidTier(s, memoryRecommendation)
     THEN << [ rule_name |-> "memory_based",
               matched_pattern |-> << >>,
               target_tier |-> memoryRecommendation,
               priority |-> MemoryPriority,
               reason |-> << "Based on previous similar tasks" >> ] >>
     ELSE << >>

(* sortByPriority leaving the matches in the order they were pushed *)
sortByPriority_Unsorted(ms) == ms

(* matches.sort((a, b) => b.priority - a.priority): stable, descending *)
RECURSIVE sortByPriority(_)
sortByPriority(ms) ==
  IF ms = << >> THEN << >>
  ELSE LET front == sortByPriority(SubSeq(ms, 1, Len(ms) - 1))
           m == ms[Len(ms)]
           keep == Cardinality({ k \in 1..Len(front) : front[k].priority >= m.priority })
       IN SubSeq(front, 1, keep) \o << m >> \o SubSeq(front, keep + 1, Len(front))

(* All matches classifyTask collects, in the order it pushes them; the    *)
(* error window is the cleaned one.                                        *)
(* if (matches.length === 0 && ...) matches.push(...) *)
pushIfEmpty(matches, more) == IF matches = << >> THEN more ELSE matches

collectMatches(cfg, s, window, mem, task, tier) ==
  pushIfEmpty(
    pushIfEmpty(
      keywordMatches(cfg.keyword_rules, task, s)
        \o escalationMatches(cfg, window, s, tier),
      costOptimizationMatches(cfg, task, s)),
    memoryMatches(mem, task, s))

NoMatch ==
  [ rule_name |-> None, matched_pattern |-> << >>, target_tier |-> None,
    priority |-> 0, reason |-> << >> ]

(* firstMatch that takes the match the sort put last *)
firstMatch_Last(matches) == IF matches = << >> THEN NoMatch ELSE matches[Len(matches)]

(* return matches.length > 0 ? matches[0] : null, after the sort *)
firstMatch(matches) == IF matches = << >> THEN NoMatch ELSE matches[1]

(* classifyTask on the engine's present state; NoMatch stands for null *)
classifyTask(task, tier) ==
  firstMatch(sortByPriority(collectMatches(rules, ruleStrategy,
                                           cleanErrorWindow(rules, errorWindow, now),
                                           memory, task, tier)))

------------------------------------------------------------------------------
(* CostTracker.  Costs and limits are in cents; a month key is the number  *)
(* of the month the instant falls in.                                      *)

MinutesPerMonth == 43200

EmptyMap == [k \in {} |-> 0]

getMonthKey(t) == t \div MinutesPerMonth

ZeroBucket == [ cost |-> 0, tokens |-> 0 ]

bucketOf(map, key) == IF key \in DOMAIN map THEN map[key] ELSE ZeroBucket

(* addToBucket that overwrites the bucket *)
addToBucket_Overwrite(map, key, cost, tokens) ==
  (key :> [ cost |-> cost, tokens |-> tokens ]) @@ map

addToBucket(map, key, cost, tokens) ==
  (key :> [ cost |-> bucketOf(map, key).cost + cost,
            tokens |-> bucketOf(map, key).tokens + tokens ]) @@ map

EmptyMonth ==
  [ total_cost |-> 0, total_tokens |-> 0, by_tier |-> EmptyMap, by_model |-> EmptyMap ]

(* record that adds to the totals the month had at startup *)
recordUsage_LostUpdate(data, params, t) ==
  [ records |-> Append(data.records, [ timestamp |-> t ] @@ params),
    monthly_totals |->
      ( getMonthKey(t) :>
          [ total_cost |-> params.cost_usd,
            total_tokens |-> params.input_tokens + params.output_tokens,
            by_tier |-> addToBucket(EmptyMap, params.tier, params.cost_usd,
                                    params.input_tokens + params.output_tokens),
            by_model |-> addToBucket(EmptyMap, << params.provider, params.model >>,
                                     params.cost_usd,
                                     params.input_tokens + params.output_tokens) ] )
      @@ data.monthly_totals ]

(* CostTracker.record without its final save() *)
recordUsage(data, params, t) ==
  LET monthKey == getMonthKey(t)
      monthly == IF monthKey \in DOMAIN data.monthly_totals
                 THEN data.monthly_totals[monthKey] ELSE EmptyMonth
      tokens == params.input_tokens + params.output_tokens
      updated ==
        [ total_cost |-> monthly.total_cost + params.cost_usd,
          total_tokens |-> monthly.total_tokens + tokens,
          by_tier |-> addToBucket(monthly.by_tier, params.tier, params.cost_usd, tokens),
          by_model |-> addToBucket(monthly.by_model, << params.provider, params.model >>,
                                   params.cost_usd, tokens) ]
  IN [ records |-> Append(data.records, [ timestamp |-> t ] @@ params),
       monthly_totals |-> (monthKey :> updated) @@ data.monthly_totals ]

(* getMonthlyUsage that answers with the first month of the ledger *)
getMonthlyUsage_FirstMonth(data, monthKey) ==
  IF 0 \in DOMAIN data.monthly_totals
  THEN data.monthly_totals[0] ELSE EmptyMonth

getMonthlyUsage(data, monthKey) ==
  IF monthKey \in DOMAIN data.monthly_totals
  THEN data.monthly_totals[monthKey] ELSE EmptyMonth

(* reaches without the test for a limit above zero *)
reaches_Unguarded(spent, limit, percent) == spent * 100 >= percent * limit

(* thresholds.filter(percentUsed >= t.percent): percentUsed is             *)
(* spent / limit * 100 for a positive limit and 0 otherwise                *)
reaches(spent, limit, percent) ==
  IF limit > 0 THEN spent * 100 >= percent * limit ELSE 0 >= percent

(* sort((a, b) => b.percent - a.percent): stable, descending *)
RECURSIVE sortByPercentDesc(_)
sortByPercentDesc(ts) ==
  IF ts = << >> THEN << >>
  ELSE LET front == sortByPercentDesc(SubSeq(ts, 1, Len(ts) - 1))
           x == ts[Len(ts)]
           keep == Cardinality({ k \in 1..Len(front) : front[k].percent >= x.percent })
       IN SubSeq(front, 1, keep) \o << x >> \o SubSeq(front, keep + 1, Len(front))

(* Math.round(x / y * 10) / 10 in tenths, for x >= 0 and y > 0 *)
roundedTenths(x, y) == (2 * 1000 * x + y) \div (2 * y)

getStatus(data, b, t) ==
  LET monthKey == getMonthKey(t)
      monthly == getMonthlyUsage(data, monthKey)
      spent == monthly.total_cost
      triggeredAlerts ==
        sortByPercentDesc(SelectSeq(b.alert_thresholds,
            LAMBDA th : reaches(spent, b.monthly_limit_usd, th.percent)))
      isBlocked ==
        \E k \in 1..Len(triggeredAlerts) :
           /\ triggeredAlerts[k].action = "block_high_tier"
           /\ reaches(spent, b.monthly_limit_usd, triggeredAlerts[k].percent)
  IN [ current_month |-> monthKey,
       spent_usd |-> spent,
       budget_usd |-> b.monthly_limit_usd,
       percent_used_tenths |->
          IF b.monthly_limit_usd > 0
          THEN roundedTenths(spent, b.monthly_limit_usd) ELSE 0,
       remaining_usd |-> b.monthly_limit_usd - spent,
       alert_triggered |-> triggeredAlerts # << >>,
       triggered_alerts |-> triggeredAlerts,
       is_blocked |-> isBlocked,
       by_tier |-> monthly.by_tier,
       by_model |-> monthly.by_model ]

------------------------------------------------------------------------------
(* Budget configuration *)

DefaultMonthlyLimit == 10000

DefaultAlertThresholds ==
  << [ percent |-> 50, action |-> "log_warning" ],
     [ percent |-> 80, action |-> "notify_user" ],
     [ percent |-> 95, action |-> "require_confirmation" ],
     [ percent |-> 100, action |-> "block_high_tier" ] >>

DefaultBudget ==
  [ defined |-> TRUE,
    monthly_limit_usd |-> DefaultMonthlyLimit,
    alert_thresholds |-> DefaultAlertThresholds ]

FallbackMonthlyLimit == 10000

(* context.config.budget || { monthly_limit_usd: 100, alert_thresholds: [] } *)
budgetOrFallback(b) ==
  IF b.defined THEN [ monthly_limit_usd |-> b.monthly_limit_usd,
                      alert_thresholds |-> b.alert_thresholds ]
  ELSE [ monthly_limit_usd |-> FallbackMonthlyLimit, alert_thresholds |-> << >> ]

(* A configuration without a budget section (loader: rulesConfig?.budget); *)
(* the fields hold what the handlers substitute for it                     *)
NoBudget ==
  [ defined |-> FALSE,
    monthly_limit_usd |-> FallbackMonthlyLimit,
    alert_thresholds |-> << >> ]

(* Budget sections with a limit that is not positive, which the schema    *)
(* (monthly_limit_usd: z.number()) accepts, and a threshold at 0%          *)
NonPositiveBudgets ==
  { [ defined |-> TRUE,
      monthly_limit_usd |-> l,
      alert_thresholds |-> << [ percent |-> 0, action |-> "log_warning" ] >>
                             \o DefaultAlertThresholds ] : l \in { 0, -5000 } }

(* highCostTiers that leaves out the middle tier *)
highCostTiers_TopOnly == { "critical", "tier3" }

highCostTiers == { "critical", "tier3", "tier2" }

------------------------------------------------------------------------------
(* Dispatcher: the tool handlers and the exported state transitions *)

lowestTier(s) == IF s = "2-tier" THEN "primary" ELSE "tier1"

(* resolveForced without the budget gate *)
resolveForced_Ungated(isBlocked, forceTier) ==
  [ target_tier |-> forceTier, reason |-> << "forced by user" >> ]

(* handleOrchestrate, forced branch after the tier was found valid *)
resolveForced(isBlocked, forceTier) ==
  IF isBlocked /\ forceTier \in highCostTiers
  THEN [ target_tier |-> lowestTier(strategy),
         reason |-> << "budget limit - forced fallback" >> ]
  ELSE [ target_tier |-> forceTier, reason |-> << "forced by user" >> ]

(* resolveRuleMatch without the budget gate *)
resolveRuleMatch_Ungated(isBlocked, ruleMatch) ==
  IF ruleMatch.rule_name = None
  THEN [ target_tier |-> currentTier, reason |-> << "no rule match" >> ]
  ELSE [ target_tier |-> ruleMatch.target_tier, reason |-> ruleMatch.reason ]

(* handleOrchestrate, classification branch *)
resolveRuleMatch(isBlocked, ruleMatch) ==
  IF ruleMatch.rule_name = None
  THEN [ target_tier |-> currentTier, reason |-> << "no rule match" >> ]
  ELSE IF isBlocked /\ ruleMatch.target_tier \in highCostTiers
       THEN [ target_tier |-> lowestTier(strategy),
              reason |-> ruleMatch.reason \o << "(budget blocked)" >> ]
       ELSE [ target_tier |-> ruleMatch.target_tier, reason |-> ruleMatch.reason ]

(* task.trim().length === 0, computed once for each text *)
IsBlank == [ s \in Texts |-> trim(s) = << >> ]

(* What handleOrchestrate decides before it touches the state *)
rejected(result, isBlocked) ==
  [ result |-> result, is_blocked |-> isBlocked, classified |-> FALSE,
    rule_name |-> None, proposed |-> None,
    target_tier |-> currentTier, reason |-> << >> ]

forcedOutcome(isBlocked, r) ==
  [ result |-> "ok", is_blocked |-> isBlocked, classified |-> FALSE,
    rule_name |-> None, proposed |-> None,
    target_tier |-> r.target_tier, reason |-> r.reason ]

classifiedOutcome(isBlocked, ruleMatch, r) ==
  [ result |-> "ok", is_blocked |-> isBlocked, classified |-> TRUE,
    rule_name |-> ruleMatch.rule_name, proposed |-> ruleMatch.target_tier,
    target_tier |-> r.target_tier, reason |-> r.reason ]

classifyAndGate(isBlocked, ruleMatch) ==
  classifiedOutcome(isBlocked, ruleMatch, resolveRuleMatch(isBlocked, ruleMatch))

resolveTierWhen(isBlocked, task, forceTier) ==
  IF IsBlank[task] THEN rejected("invalid_task", isBlocked)
  ELSE IF forceTier # None
  THEN IF ~isValidTier(ruleStrategy, forceTier)
       THEN rejected("invalid_tier", isBlocked)
       ELSE forcedOutcome(isBlocked, resolveForced(isBlocked, forceTier))
  ELSE classifyAndGate(isBlocked, classifyTask(task, currentTier))

resolveTier(task, forceTier) ==
  resolveTierWhen(getStatus(usage, budgetOrFallback(budget), now).is_blocked,
                  task, forceTier)

(* config.providers and config.defaults.tier_models of getDefaultConfig: *)
(* provider and model names and model references are texts                 *)
DefaultModelConfig ==
  [ providers |->
      [ p \in { <<"a","n","t","h","r","o","p","i","c">> } |->
          [ models |->
              ( <<"h","a","i","k","u">> :> [ id |-> "claude-3-haiku-20240307" ] ) @@
              ( <<"s","o","n","n","e","t">> :> [ id |-> "claude-sonnet-4-20250514" ] ) @@
              ( <<"o","p","u","s">> :> [ id |-> "claude-opus-4-5-20251101" ] ) ] ],
    tier_models |->
      [ s \in StrategyTypes |->
          IF s = "2-tier"
          THEN [ primary |-> <<"a","n","t","h","r","o","p","i","c",":","s","o","n","n","e","t">>,
                 critical |-> <<"a","n","t","h","r","o","p","i","c",":","o","p","u","s">> ]
          ELSE [ tier1 |-> <<"a","n","t","h","r","o","p","i","c",":","h","a","i","k","u">>,
                 tier2 |-> <<"a","n","t","h","r","o","p","i","c",":","s","o","n","n","e","t">>,
                 tier3 |-> <<"a","n","t","h","r","o","p","i","c",":","o","p","u","s">> ] ] ]

(* The position of the first ':' of a text, or one past its end *)
indexOfColon(ref) ==
  IF \E i \in 1..Len(ref) : ref[i] = ":"
  THEN CHOOSE i \in 1..Len(ref) : ref[i] = ":" /\ \A j \in 1..(i - 1) : ref[j] # ":"
  ELSE Len(ref) + 1

(* const [provider, model] = modelRef.split(':'): the text before the     *)
(* first ':' and the text between the first and the second; without a ':' *)
(* model is undefined, which as a property key reads "undefined"           *)
splitModelRef(ref) ==
  LET i == indexOfColon(ref)
      rest == SubSeq(ref, i + 1, Len(ref))
  IN [ provider |-> SubSeq(ref, 1, i - 1),
       model |-> IF i > Len(ref) THEN <<"u","n","d","e","f","i","n","e","d">>
                 ELSE SubSeq(rest, 1, indexOfColon(rest) - 1) ]

(* The model reference getCurrentModel reads for a tier: under 2-tier     *)
(* every tier other than primary reads critical; under 3-tier a tier that  *)
(* is no key of the mapping reads undefined, here the empty text           *)
modelRefOf(cfg, s, tier) ==
  IF s = "2-tier"
  THEN IF tier = "primary" THEN cfg.tier_models[s].primary
       ELSE cfg.tier_models[s].critical
  ELSE IF tier \in DOMAIN cfg.tier_models[s] THEN cfg.tier_models[s][tier]
       ELSE << >>

(* server.getCurrentModel: what it returns, or the Error it throws *)
getCurrentModel(cfg, s, tier) ==
  LET modelRef == modelRefOf(cfg, s, tier)
      ref == splitModelRef(modelRef)
  IN IF modelRef = << >>
     THEN [ result |-> "error", message |-> "No model configured for tier" ]
     ELSE IF ref.provider \notin DOMAIN cfg.providers
     THEN [ result |-> "error", message |-> "Provider not found" ]
     ELSE IF ref.model \notin DOMAIN cfg.providers[ref.provider].models
     THEN [ result |-> "error", message |-> "Model not found" ]
     ELSE [ result |-> "ok", provider |-> ref.provider, model |-> ref.model,
            modelId |-> cfg.providers[ref.provider].models[ref.model].id ]

(* handleGetStatus: the model info shown, 'unknown' thrice when            *)
(* getCurrentModel throws                                                  *)
statusModelInfo(m) ==
  IF m.result = "ok"
  THEN [ provider |-> m.provider, model |-> m.model, modelId |-> m.modelId ]
  ELSE [ provider |-> <<"u","n","k","n","o","w","n">>, model |-> <<"u","n","k","n","o","w","n">>, modelId |-> "unknown" ]

(* handleOrchestrate: the Active Configuration lines, or the warning       *)
(* shown when getCurrentModel throws                                       *)
orchestrateModelInfo(m) ==
  IF m.result = "ok"
  THEN [ provider |-> m.provider, model |-> m.model, modelId |-> m.modelId ]
  ELSE [ warning |-> "Could not get model info" ]

(* shouldSwitch that does not look at autoMode *)
shouldSwitch_IgnoreAutoMode(targetTier, autoSwitch) ==
  targetTier # currentTier /\ autoSwitch

(* handleOrchestrate: tierChanged && autoSwitch && context.state.autoMode *)
shouldSwitch(targetTier, autoSwitch) ==
  targetTier # currentTier /\ autoSwitch /\ autoMode

handleOrchestrate(t, forceTier, autoSwitch) ==
  \E r \in { resolveTier(TaskText[t], forceTier) } :
  \E switching \in { r.result = "ok" /\ shouldSwitch(r.target_tier, autoSwitch) } :
     /\ currentTier' = IF switching THEN r.target_tier ELSE currentTier
     /\ memory' =
          IF switching
          THEN recordTask(recordTierSwitch(memory, currentTier, r.target_tier),
                          TaskText[t], r.target_tier, TRUE)
          ELSE memory
     /\ errorWindow' =
          IF r.classified /\ rules.error_escalation.enabled
          THEN cleanErrorWindow(rules, errorWindow, now)
          ELSE errorWindow
     /\ last' = [ op |-> "orchestrate", force_tier |-> forceTier,
                  auto_switch |-> autoSwitch, switched |-> switching,
                  model_info |->
                     IF r.result = "ok"
                     THEN orchestrateModelInfo(
                             getCurrentModel(modelConfig, strategy, currentTier'))
                     ELSE None ] @@ r
     /\ UNCHANGED << strategy, autoMode, ruleStrategy, rules, modelConfig, requests, budget, usage, now >>

(* handleSwitchTier that switches before it validates *)
handleSwitchTier_SwitchFirst(tier) ==
  /\ currentTier' = tier
  /\ memory' = recordTierSwitch(memory, currentTier, tier)
  /\ last' = IF isValidTier(ruleStrategy, tier)
             THEN [ op |-> "switch_tier", tier |-> tier, result |-> "ok",
                    active_model |-> modelRefOf(modelConfig, strategy, tier) ]
             ELSE [ op |-> "switch_tier", tier |-> tier, result |-> "invalid_tier" ]
  /\ UNCHANGED << strategy, autoMode, ruleStrategy, errorWindow, rules, modelConfig, requests, budget,
                  usage, now >>

(* handleSwitchTier, with server.switchTier inlined *)
handleSwitchTier(tier) ==
  /\ IF ~isValidTier(ruleStrategy, tier)
     THEN /\ last' = [ op |-> "switch_tier", tier |-> tier, result |-> "invalid_tier" ]
          /\ UNCHANGED << currentTier, memory >>
     ELSE /\ currentTier' = tier
          /\ memory' = recordTierSwitch(memory, currentTier, tier)
          /\ last' = [ op |-> "switch_tier", tier |-> tier, result |-> "ok",
                       active_model |-> modelConfig.tier_models[strategy][tier] ]
  /\ UNCHANGED << strategy, autoMode, ruleStrategy, errorWindow, rules, modelConfig, requests, budget,
                  usage, now >>

(* setStrategy that tells the rule engine and not the server state *)
setStrategy_EngineOnly(s) ==
  /\ UNCHANGED strategy
  /\ currentTier' = IF s = "2-tier" THEN "primary" ELSE "tier1"
  /\ ruleStrategy' = s

(* setStrategy that keeps the tier *)
setStrategy_KeepTier(s) ==
  /\ strategy' = s
  /\ UNCHANGED currentTier
  /\ ruleStrategy' = s

(* setStrategy that does not tell the rule engine *)
setStrategy_EngineUntold(s) ==
  /\ strategy' = s
  /\ currentTier' = IF s = "2-tier" THEN "primary" ELSE "tier1"
  /\ UNCHANGED ruleStrategy

(* server.setStrategy *)
setStrategy(s) ==
  /\ strategy' = s
  /\ currentTier' = IF s = "2-tier" THEN "primary" ELSE "tier1"
  /\ ruleStrategy' = s

callSetStrategy(s) ==
  /\ setStrategy(s)
  /\ last' = [ op |-> "setStrategy", strategy |-> s, previous_tier |-> currentTier ]
  /\ UNCHANGED << autoMode, errorWindow, rules, modelConfig, requests, budget, usage, memory, now >>

(* handleSetAutoMode that calls setStrategy whenever a strategy is given *)
handleSetAutoMode_AlwaysReset(enabled, s) ==
  /\ autoMode' = enabled
  /\ IF s # None THEN setStrategy(s)
     ELSE UNCHANGED << strategy, currentTier, ruleStrategy >>
  /\ last' = [ op |-> "set_auto_mode", enabled |-> enabled, strategy |-> s,
               strategy_changed |-> s # None /\ s # strategy,
               previous_tier |-> currentTier ]
  /\ UNCHANGED << errorWindow, rules, modelConfig, requests, budget, usage, memory,
                  now >>

(* handleSetAutoMode; s is None when no strategy is given *)
handleSetAutoMode(enabled, s) ==
  LET strategyChanged == s # None /\ s # strategy
  IN /\ autoMode' = enabled
     /\ IF strategyChanged THEN setStrategy(s)
        ELSE UNCHANGED << strategy, currentTier, ruleStrategy >>
     /\ last' = [ op |-> "set_auto_mode", enabled |-> enabled, strategy |-> s,
                  strategy_changed |-> strategyChanged, previous_tier |-> currentTier ]
     /\ UNCHANGED << errorWindow, rules, modelConfig, requests, budget, usage, memory, now >>

(* handleGetStatus that notes the status request in the session memory *)
handleGetStatus_Remembered ==
  /\ last' = [ op |-> "get_status",
               model |-> statusModelInfo(
                            getCurrentModel(modelConfig, strategy, currentTier)),
               usage |-> getStatus(usage, budgetOrFallback(budget), now) ]
  /\ memory' = recordTask(memory, TaskText["hello"], currentTier, TRUE)
  /\ UNCHANGED << currentTier, strategy, autoMode, ruleStrategy, errorWindow, rules, modelConfig, requests,
                  budget, usage, now >>

(* handleGetStatus *)
handleGetStatus ==
  /\ last' = [ op |-> "get_status",
               model |-> statusModelInfo(
                            getCurrentModel(modelConfig, strategy, currentTier)),
               usage |-> getStatus(usage, budgetOrFallback(budget), now) ]
  /\ UNCHANGED << currentTier, strategy, autoMode, ruleStrategy, errorWindow, rules, modelConfig, requests,
                  budget, usage, memory, now >>

SetBudgetDefaultThresholds ==
  << [ percent |-> 50, action |-> "log_warning" ],
     [ percent |-> 95, action |-> "require_confirmation" ],
     [ percent |-> 100, action |-> "block_high_tier" ] >>

(* sort((a, b) => a.percent - b.percent): stable, ascending *)
RECURSIVE sortByPercentAsc(_)
sortByPercentAsc(ts) ==
  IF ts = << >> THEN << >>
  ELSE LET front == sortByPercentAsc(SubSeq(ts, 1, Len(ts) - 1))
           x == ts[Len(ts)]
           keep == Cardinality({ k \in 1..Len(front) : front[k].percent <= x.percent })
       IN SubSeq(front, 1, keep) \o << x >> \o SubSeq(front, keep + 1, Len(front))

reportedThresholds(alertThresholdPercent) ==
  IF \E k \in 1..Len(SetBudgetDefaultThresholds) :
        SetBudgetDefaultThresholds[k].percent = alertThresholdPercent
  THEN SetBudgetDefaultThresholds
  ELSE sortByPercentAsc(Append(SetBudgetDefaultThresholds,
          [ percent |-> alertThresholdPercent, action |-> "notify_user" ]))

(* handleSetBudget that stores the limit before it validates *)
handleSetBudget_StoreFirst(monthlyLimit, alertThresholdPercent) ==
  /\ budget' = [ budget EXCEPT !.monthly_limit_usd = monthlyLimit ]
  /\ last' = [ op |-> "set_budget",
               result |-> IF monthlyLimit <= 0 THEN "limit_error"
                          ELSE IF alertThresholdPercent < 0
                                  \/ alertThresholdPercent > 100
                               THEN "percent_error" ELSE "ok",
               monthly_limit |-> monthlyLimit,
               alert_percent |-> alertThresholdPercent,
               previous_limit |-> budget.monthly_limit_usd ]
  /\ UNCHANGED << currentTier, strategy, autoMode, ruleStrategy, errorWindow, rules, modelConfig, requests,
                  usage, memory, now >>

(* handleSetBudget that reports the new limit without storing it *)
handleSetBudget_LimitKept(monthlyLimit, alertThresholdPercent) ==
  /\ IF monthlyLimit <= 0
     THEN last' = [ op |-> "set_budget", result |-> "limit_error" ]
     ELSE IF alertThresholdPercent < 0 \/ alertThresholdPercent > 100
     THEN last' = [ op |-> "set_budget", result |-> "percent_error" ]
     ELSE last' = [ op |-> "set_budget", result |-> "ok",
                    monthly_limit |-> monthlyLimit,
                    previous_limit |-> budget.monthly_limit_usd,
                    alert_thresholds |-> reportedThresholds(alertThresholdPercent),
                    usage |-> getStatus(usage,
                                [ monthly_limit_usd |-> monthlyLimit,
                                  alert_thresholds |->
                                     reportedThresholds(alertThresholdPercent) ],
                                now) ]
  /\ UNCHANGED << currentTier, strategy, autoMode, ruleStrategy, errorWindow, rules, modelConfig, requests,
                  budget, usage, memory, now >>

(* handleSetBudget *)
handleSetBudget(monthlyLimit, alertThresholdPercent) ==
  /\ IF monthlyLimit <= 0
     THEN /\ last' = [ op |-> "set_budget", result |-> "limit_error",
                       monthly_limit |-> monthlyLimit,
                       alert_percent |-> alertThresholdPercent ]
          /\ UNCHANGED budget
     ELSE IF alertThresholdPercent < 0 \/ alertThresholdPercent > 100
     THEN /\ last' = [ op |-> "set_budget", result |-> "percent_error",
                       monthly_limit |-> monthlyLimit,
                       alert_percent |-> alertThresholdPercent ]
          /\ UNCHANGED budget
     ELSE /\ budget' =
               IF ~budget.defined
               THEN [ defined |-> TRUE, monthly_limit_usd |-> monthlyLimit,
                      alert_thresholds |-> << >> ]
               ELSE [ budget EXCEPT !.monthly_limit_usd = monthlyLimit ]
          /\ last' = [ op |-> "set_budget", result |-> "ok",
                       monthly_limit |-> monthlyLimit,
                       alert_percent |-> alertThresholdPercent,
                       previous_limit |-> budget.monthly_limit_usd,
                       alert_thresholds |-> reportedThresholds(alertThresholdPercent),
                       usage |-> getStatus(usage,
                                   [ monthly_limit_usd |-> monthlyLimit,
                                     alert_thresholds |->
                                        reportedThresholds(alertThresholdPercent) ],
                                   now) ]
  /\ UNCHANGED << currentTier, strategy, autoMode, ruleStrategy, errorWindow, rules, modelConfig, requests,
                  usage, memory, now >>

------------------------------------------------------------------------------
(* The callers outside the tool layer, and the clock *)

(* RuleEngine.recordError *)
recordError ==
  /\ Len(cleanErrorWindow(rules, errorWindow, now)) < MaxErrors
  /\ errorWindow' =
       IF ~rules.error_escalation.enabled THEN errorWindow
       ELSE cleanErrorWindow(rules, Append(errorWindow, now), now)
  /\ last' = [ op |-> "recordError" ]
  /\ UNCHANGED << currentTier, strategy, autoMode, ruleStrategy, rules, modelConfig, requests, budget,
                  usage, memory, now >>

(* RuleEngine.getErrorCount *)
getErrorCount ==
  /\ errorWindow' = cleanErrorWindow(rules, errorWindow, now)
  /\ last' = [ op |-> "getErrorCount",
               count |-> Len(cleanErrorWindow(rules, errorWindow, now)),
               purged |-> Len(errorWindow) - Len(cleanErrorWindow(rules, errorWindow, now)) ]
  /\ UNCHANGED << currentTier, strategy, autoMode, ruleStrategy, rules, modelConfig, requests, budget,
                  usage, memory, now >>

(* Minutes pass between two calls *)
tick(minutes) ==
  /\ now + minutes <= MaxClock
  /\ now' = now + minutes
  /\ last' = [ op |-> "tick" ]
  /\ UNCHANGED << currentTier, strategy, autoMode, ruleStrategy, errorWindow, rules, modelConfig, requests,
                  budget, usage, memory >>

(* CostTracker.record while the ledger holds fewer than cap records *)
recordWithin(cap, params) ==
  /\ Len(usage.records) < cap
  /\ usage' = recordUsage(usage, params, now)
  /\ last' = [ op |-> "record" ]
  /\ UNCHANGED << currentTier, strategy, autoMode, ruleStrategy, errorWindow, rules, modelConfig, requests,
                  budget, memory, now >>

(* CostTracker.record *)
record(params) == recordWithin(MaxRecords, params)

(* CostTracker.record when writeFileSync throws: the record was pushed and *)
(* the totals were updated before save() was called                        *)
recordSaveFails(cap, params) ==
  /\ Len(usage.records) < cap
  /\ usage' = recordUsage(usage, params, now)
  /\ last' = [ op |-> "record", error |-> "FileOperationError" ]
  /\ UNCHANGED << currentTier, strategy, autoMode, ruleStrategy, errorWindow, rules, modelConfig, requests,
                  budget, memory, now >>

(* CostTracker.clear *)
CostTracker_clear ==
  /\ usage' = [ records |-> << >>, monthly_totals |-> EmptyMap ]
  /\ last' = [ op |-> "clear" ]
  /\ UNCHANGED << currentTier, strategy, autoMode, ruleStrategy, errorWindow, rules, modelConfig, requests,
                  budget, memory, now >>

(* The clock passes into the next month *)
nextMonth ==
  /\ getMonthKey(now) < MaxMonths
  /\ now' = now + MinutesPerMonth
  /\ last' = [ op |-> "nextMonth" ]
  /\ UNCHANGED << currentTier, strategy, autoMode, ruleStrategy, errorWindow, rules, modelConfig, requests,
                  budget, usage, memory >>

(* No call was submitted *)
NoRequests == [ submitted |-> << >>, handled |-> << >> ]

(* The submitted calls no handler has run for *)
pendingRequests ==
  { i \in 1..Len(requests.submitted) :
       \A k \in 1..Len(requests.handled) : requests.handled[k] # i }

(* A client submits a call: it waits with the calls submitted before it *)
submit(call) ==
  /\ Len(requests.submitted) < MaxRequests
  /\ requests' = [ requests EXCEPT !.submitted = Append(@, call) ]
  /\ last' = [ op |-> "submit" ]
  /\ UNCHANGED << currentTier, strategy, autoMode, ruleStrategy, errorWindow, rules,
                  modelConfig, budget, usage, memory, now >>

(* The CallToolRequest handler runs for one of the waiting switch_tier     *)
(* calls, whichever the host delivers next: handleToolCall and             *)
(* handleSwitchTier are synchronous and run to their return                *)
handleToolRequest(i) ==
  /\ i \in pendingRequests
  /\ requests.submitted[i].kind = "switch_tier"
  /\ requests' = [ requests EXCEPT !.handled = Append(@, i) ]
  /\ \E tier \in { requests.submitted[i].tier } :
       IF ~isValidTier(ruleStrategy, tier)
       THEN /\ last' = [ op |-> "switch_tier", tier |-> tier, result |-> "invalid_tier" ]
            /\ UNCHANGED << currentTier, memory >>
       ELSE /\ currentTier' = tier
            /\ memory' = recordTierSwitch(memory, currentTier, tier)
            /\ last' = [ op |-> "switch_tier", tier |-> tier, result |-> "ok",
                         active_model |-> modelConfig.tier_models[strategy][tier] ]
  /\ UNCHANGED << strategy, autoMode, ruleStrategy, errorWindow, rules, modelConfig,
                  budget, usage, now >>

(* CostTracker.record runs for one of the waiting record calls: it is      *)
(* synchronous from the push of the record to the return of save()         *)
handleRecordRequest(i) ==
  /\ i \in pendingRequests
  /\ requests.submitted[i].kind = "record"
  /\ requests' = [ requests EXCEPT !.handled = Append(@, i) ]
  /\ usage' = recordUsage(usage, requests.submitted[i].params, now)
  /\ last' = [ op |-> "record" ]
  /\ UNCHANGED << currentTier, strategy, autoMode, ruleStrategy, errorWindow, rules,
                  modelConfig, budget, memory, now >>

(* ConversationMemoryTracker.recordTask called on the tracker *)
callRecordTask(t, tierUsed, success) ==
  /\ getCurrentSession(memory) # NoSession \/ memory.next_id <= MaxSessionStarts
  /\ memory' = recordTask(memory, TaskText[t], tierUsed, success)
  /\ last' = [ op |-> "recordTask",
               entry |-> [ task_pattern |-> PatternOf[TaskText[t]],
                           tier_used |-> tierUsed, success |-> success ],
               held_before |->
                  IF getCurrentSession(memory) = NoSession THEN 0
                  ELSE Len(memory.sessions[getCurrentSession(memory)].entries) ]
  /\ UNCHANGED << currentTier, strategy, autoMode, ruleStrategy, errorWindow, rules, modelConfig, requests,
                  budget, usage, now >>

(* ConversationMemoryTracker.recordTask when writeFileSync throws: save()  *)
(* catches the error and logs it, the entry stays in the session and the   *)
(* call returns normally                                                   *)
callRecordTaskSaveFails(t, tierUsed, success) ==
  /\ getCurrentSession(memory) # NoSession \/ memory.next_id <= MaxSessionStarts
  /\ memory' = recordTask(memory, TaskText[t], tierUsed, success)
  /\ last' = [ op |-> "recordTask",
               entry |-> [ task_pattern |-> PatternOf[TaskText[t]],
                           tier_used |-> tierUsed, success |-> success ],
               held_before |->
                  IF getCurrentSession(memory) = NoSession THEN 0
                  ELSE Len(memory.sessions[getCurrentSession(memory)].entries),
               store |-> "write failed" ]
  /\ UNCHANGED << currentTier, strategy, autoMode, ruleStrategy, errorWindow, rules, modelConfig, requests,
                  budget, usage, now >>

(* A recordTask call was entered and has not returned or thrown *)
recordTaskRunning ==
  last.op = "recordTask" /\ "returned" \in DOMAIN last /\ ~last.returned
     /\ "error" \notin DOMAIN last

(* One activation of recordTask with the arguments in call: with a current *)
(* session it pushes the entry, prunes, saves and returns; without one it  *)
(* calls startNewSession and then itself, one frame deeper, until the call *)
(* stack is exhausted and the runtime throws RangeError                    *)
recordTaskFrame(call, depth) ==
  IF getCurrentSession(memory) # NoSession
  THEN /\ memory' = pushEntry(memory, getCurrentSession(memory), call.entry)
       /\ last' = [ call EXCEPT !.returned = TRUE, !.depth = depth ]
  ELSE IF depth >= MaxCallDepth
  THEN /\ last' = [ call EXCEPT !.depth = depth ] @@ [ error |-> "RangeError" ]
       /\ UNCHANGED memory
  ELSE /\ memory' = startNewSession(memory)
       /\ last' = [ call EXCEPT !.depth = depth ]

(* ConversationMemoryTracker.recordTask is called: its first activation *)
enterRecordTask(t, tierUsed, success) ==
  /\ ~recordTaskRunning
  /\ memory.next_id <= MaxSessionStarts
  /\ recordTaskFrame([ op |-> "recordTask", returned |-> FALSE, depth |-> 1,
                       entry |-> [ task_pattern |-> PatternOf[TaskText[t]],
                                   tier_used |-> tierUsed, success |-> success ] ],
                     1)
  /\ UNCHANGED << currentTier, strategy, autoMode, ruleStrategy, errorWindow, rules,
                  modelConfig, requests, budget, usage, now >>

(* return this.recordTask(...): the next activation of a call that found   *)
(* no current session                                                      *)
reenterRecordTask ==
  /\ recordTaskRunning
  /\ recordTaskFrame(last, last.depth + 1)
  /\ UNCHANGED << currentTier, strategy, autoMode, ruleStrategy, errorWindow, rules,
                  modelConfig, requests, budget, usage, now >>

(* ConversationMemoryTracker.startNewSession called on the tracker *)
callStartNewSession ==
  /\ memory.next_id <= MaxSessionStarts
  /\ memory' = startNewSession(memory)
  /\ last' = [ op |-> "startNewSession", session_id |-> memory.next_id,
               held_before |-> Len(memory.sessions) ]
  /\ UNCHANGED << currentTier, strategy, autoMode, ruleStrategy, errorWindow, rules, modelConfig, requests,
                  budget, usage, now >>

(* startNewSession called on the tracker between two recordTask calls *)
startNewSessionWhenIdle == ~recordTaskRunning /\ callStartNewSession

(* ConversationMemoryTracker.clear: empty data, then startNewSession *)
MemoryTracker_clear ==
  /\ memory.next_id <= MaxSessionStarts
  /\ memory' = startNewSession([ memory EXCEPT !.sessions = << >>,
                                               !.current_session_id = NoSession ])
  /\ last' = [ op |-> "clearMemory", session_id |-> memory.next_id ]
  /\ UNCHANGED << currentTier, strategy, autoMode, ruleStrategy, errorWindow, rules, modelConfig, requests,
                  budget, usage, now >>

(* ConversationMemoryTracker.startNewSession when writeFileSync throws:    *)
(* the session was pushed and made current before save() was called, and   *)
(* save() swallows the error                                               *)
callStartNewSessionSaveFails ==
  /\ memory.next_id <= MaxSessionStarts
  /\ memory' = startNewSession(memory)
  /\ last' = [ op |-> "startNewSession", session_id |-> memory.next_id,
               held_before |-> Len(memory.sessions), store |-> "write failed" ]
  /\ UNCHANGED << currentTier, strategy, autoMode, ruleStrategy, errorWindow, rules, modelConfig, requests,
                  budget, usage, now >>

(* createServer runs again and memory.json cannot be read or parsed: load  *)
(* logs, returns the empty store, and the constructor starts a session     *)
restartUnreadable ==
  /\ memory.next_id <= MaxSessionStarts
  /\ currentTier' = (IF strategy = "2-tier" THEN "primary" ELSE "tier1")
  /\ autoMode' = TRUE
  /\ errorWindow' = << >>
  /\ memory' = startNewSession([ memory EXCEPT !.sessions = << >>,
                                               !.current_session_id = NoSession ])
  /\ last' = [ op |-> "startup", store |-> "read failed" ]
  /\ UNCHANGED << strategy, ruleStrategy, rules, modelConfig, requests, budget, usage, now >>

(* The process ends and createServer runs again on the same data          *)
(* directory: the dispatcher state and the error window start afresh, the  *)
(* tracker loads memory.json and starts a session only if the store names  *)
(* no current session                                                      *)
restart ==
  /\ currentTier' = (IF strategy = "2-tier" THEN "primary" ELSE "tier1")
  /\ autoMode' = TRUE
  /\ errorWindow' = << >>
  /\ memory' = IF memory.current_session_id = NoSession
               THEN startNewSession(memory) ELSE memory
  /\ last' = [ op |-> "startup" ]
  /\ UNCHANGED << strategy, ruleStrategy, rules, modelConfig, requests, budget, usage, now >>

(* ConversationMemoryTracker.getSessionSummary called on the tracker *)
callGetSessionSummary ==
  /\ last' = [ op |-> "getSessionSummary", summary |-> getSessionSummary(memory) ]
  /\ UNCHANGED << currentTier, strategy, autoMode, ruleStrategy, errorWindow, rules, modelConfig, requests,
                  budget, usage, memory, now >>

(* ConversationMemoryTracker.getRecommendedTier called on the tracker *)
callGetRecommendedTier(t) ==
  /\ last' = [ op |-> "getRecommendedTier", pattern |-> PatternOf[TaskText[t]],
               tier |-> getRecommendedTier(memory, TaskText[t]) ]
  /\ UNCHANGED << currentTier, strategy, autoMode, ruleStrategy, errorWindow, rules, modelConfig, requests,
                  budget, usage, memory, now >>

------------------------------------------------------------------------------
(* Startup and the calls made *)

(* The orchestrate calls made: every task unforced, one task forced to *)
(* each tier                                                            *)
DispatchTasks == { "design_security", "design_logo", "hello", "blank" }

OrchestrateCalls ==
  { << t, None, a >> : t \in DispatchTasks, a \in BOOLEAN }
    \cup { << "hello", f, a >> : f \in Tiers, a \in BOOLEAN }

SetBudgetCalls ==
  { << 0, 80 >>, << 1000, 80 >>, << 10000, 80 >>, << 1000, 120 >>, << 1000, -1 >> }

UsageEvents ==
  { [ provider |-> "anthropic", model |-> "opus", tier |-> "critical",
      input_tokens |-> 1000, output_tokens |-> 500, cost_usd |-> 1050 ] }

(* The capacities the tracker is constructed with *)
EntryCapacities == { 1 }

SessionCapacities == { 2 }

FreshMemory(n, m) ==
  startNewSession([ sessions |-> << >>, current_session_id |-> NoSession,
                    next_id |-> 1, maxEntriesPerSession |-> n, maxSessions |-> m ])

(* createServer with the default rules and budget *)
Init ==
  /\ strategy \in StrategyTypes
  /\ currentTier = (IF strategy = "2-tier" THEN "primary" ELSE "tier1")
  /\ autoMode = TRUE
  /\ ruleStrategy = strategy
  /\ errorWindow = << >>
  /\ requests = NoRequests
  /\ modelConfig = DefaultModelConfig
  /\ rules = DefaultRules
  /\ budget = DefaultBudget
  /\ usage = [ records |-> << >>, monthly_totals |-> EmptyMap ]
  /\ memory \in { FreshMemory(n, m) : n \in EntryCapacities, m \in SessionCapacities }
  /\ now = 0
  /\ last = [ op |-> "startup" ]

Next ==
  \/ \E tier \in Tiers : handleSwitchTier(tier)
  \/ \E enabled \in BOOLEAN, s \in StrategyTypes \cup { None } :
        handleSetAutoMode(enabled, s)
  \/ \E s \in StrategyTypes : callSetStrategy(s)
  \/ \E c \in OrchestrateCalls : handleOrchestrate(c[1], c[2], c[3])
  \/ handleGetStatus
  \/ \E c \in SetBudgetCalls : handleSetBudget(c[1], c[2])
  \/ recordError
  \/ \E params \in UsageEvents : record(params)

Spec == Init /\ [][Next]_vars

------------------------------------------------------------------------------
(* The classifier under every task and several declaration orders of the  *)
(* default rules, with the budget left alone                              *)

RuleOrders ==
  { DefaultRuleOrder,
    << "implementation_keywords", "exploration_keywords",
       "security_keywords", "architecture_keywords" >>,
    << "security_keywords", "implementation_keywords",
       "architecture_keywords", "exploration_keywords" >> }

RulesEntryCapacities == { 1 }

ClassifyCalls == { << t, None, TRUE >> : t \in Tasks }

InitRules ==
  /\ strategy \in StrategyTypes
  /\ currentTier = (IF strategy = "2-tier" THEN "primary" ELSE "tier1")
  /\ autoMode = TRUE
  /\ ruleStrategy = strategy
  /\ errorWindow = << >>
  /\ requests = NoRequests
  /\ modelConfig = DefaultModelConfig
  /\ rules \in { [ DefaultRules EXCEPT !.keyword_rules = o,
                                       !.cost_optimization.enabled = e ] :
                    o \in RuleOrders, e \in BOOLEAN }
  /\ budget = DefaultBudget
  /\ usage = [ records |-> << >>, monthly_totals |-> EmptyMap ]
  /\ memory \in { FreshMemory(n, m) : n \in RulesEntryCapacities, m \in SessionCapacities }
  /\ now = 0
  /\ last = [ op |-> "startup" ]

NextRules ==
  \/ \E tier \in Tiers : handleSwitchTier(tier)
  \/ \E s \in StrategyTypes : callSetStrategy(s)
  \/ \E c \in ClassifyCalls : handleOrchestrate(c[1], c[2], c[3])
  \/ recordError

SpecRules == InitRules /\ [][NextRules]_vars

------------------------------------------------------------------------------
(* The classifier under a configuration that declares one more keyword    *)
(* rule after the default ones                                            *)

CustomRuleOrders == { DefaultRuleOrder \o << c >> : c \in DOMAIN CustomRuleTable }

PriorityTasks == { "find_and_fix", "fix_security", "hello" }

PriorityCalls == { << t, None, TRUE >> : t \in PriorityTasks }

InitPriority ==
  /\ strategy \in StrategyTypes
  /\ currentTier = (IF strategy = "2-tier" THEN "primary" ELSE "tier1")
  /\ autoMode = TRUE
  /\ ruleStrategy = strategy
  /\ errorWindow = << >>
  /\ requests = NoRequests
  /\ modelConfig = DefaultModelConfig
  /\ rules \in { [ DefaultRules EXCEPT !.keyword_rules = o ] : o \in CustomRuleOrders }
  /\ budget = DefaultBudget
  /\ usage = [ records |-> << >>, monthly_totals |-> EmptyMap ]
  /\ memory \in { FreshMemory(n, m) : n \in RulesEntryCapacities, m \in SessionCapacities }
  /\ now = 0
  /\ last = [ op |-> "startup" ]

NextPriority ==
  \/ \E tier \in Tiers : handleSwitchTier(tier)
  \/ \E s \in StrategyTypes : callSetStrategy(s)
  \/ \E c \in PriorityCalls : handleOrchestrate(c[1], c[2], c[3])
  \/ recordError

SpecPriority == InitPriority /\ [][NextPriority]_vars

------------------------------------------------------------------------------
(* The ledger across a month boundary, with calls of two models and tiers, *)
(* a store that can refuse a write, and the budget raised and lowered      *)

LedgerEvents ==
  { [ provider |-> "anthropic", model |-> "opus", tier |-> "critical",
      input_tokens |-> 1000, output_tokens |-> 500, cost_usd |-> 9996 ],
    [ provider |-> "zhipu", model |-> "glm", tier |-> "primary",
      input_tokens |-> 200, output_tokens |-> 100, cost_usd |-> 54 ] }

LedgerBudgetCalls ==
  { << 5000, 80 >>, << 10000, 80 >>, << 20000, 80 >>, << 10000, 70 >> }

LedgerOrchestrateCalls ==
  { << "design_security", None, FALSE >>, << "hello", "critical", FALSE >> }

InitLedger ==
  /\ strategy = "2-tier"
  /\ currentTier = "primary"
  /\ autoMode = TRUE
  /\ ruleStrategy = strategy
  /\ errorWindow = << >>
  /\ requests = NoRequests
  /\ modelConfig = DefaultModelConfig
  /\ rules = DefaultRules
  /\ budget \in { DefaultBudget, NoBudget } \cup NonPositiveBudgets
  /\ usage = [ records |-> << >>, monthly_totals |-> EmptyMap ]
  /\ memory \in { FreshMemory(n, m) : n \in EntryCapacities, m \in SessionCapacities }
  /\ now = 0
  /\ last = [ op |-> "startup" ]

NextLedger ==
  \/ \E params \in LedgerEvents : recordWithin(MaxLedgerRecords, params)
  \/ \E params \in LedgerEvents : recordSaveFails(MaxLedgerRecords, params)
  \/ CostTracker_clear
  \/ nextMonth
  \/ handleGetStatus
  \/ \E c \in LedgerBudgetCalls : handleSetBudget(c[1], c[2])
  \/ \E c \in LedgerOrchestrateCalls : handleOrchestrate(c[1], c[2], c[3])

SpecLedger == InitLedger /\ [][NextLedger]_vars

------------------------------------------------------------------------------
(* The session memory on its own: trackers of several capacities, outcomes *)
(* of two categories on two tiers, successful and failed, sessions started *)
(* and the memory cleared                                                  *)

(* maxEntriesPerSession and maxSessions of the trackers constructed *)
MemoryCapacities == { << 1, 2 >>, << 2, 2 >>, << 3, 1 >> }

MemoryTasks == { "hello", "design_logo" }

MemoryTiers == { "primary", "critical" }

InitMemory ==
  /\ strategy = "2-tier"
  /\ currentTier = "primary"
  /\ autoMode = TRUE
  /\ ruleStrategy = strategy
  /\ errorWindow = << >>
  /\ requests = NoRequests
  /\ modelConfig = DefaultModelConfig
  /\ rules = DefaultRules
  /\ budget = DefaultBudget
  /\ usage = [ records |-> << >>, monthly_totals |-> EmptyMap ]
  /\ memory \in { FreshMemory(c[1], c[2]) : c \in MemoryCapacities }
  /\ now = 0
  /\ last = [ op |-> "startup" ]

NextMemory ==
  \/ \E t \in MemoryTasks, tierUsed \in MemoryTiers, success \in BOOLEAN :
        callRecordTask(t, tierUsed, success)
  \/ callStartNewSession
  \/ MemoryTracker_clear
  \/ \E t \in MemoryTasks : callGetRecommendedTier(t)
  \/ callGetSessionSummary
  \/ restart

SpecMemory == InitMemory /\ [][NextMemory]_vars

(* Calls submitted together to one server: records of two kinds and       *)
(* switch_tier calls wait in any number up to MaxRequests and are handled  *)
(* in every order                                                          *)
SubmittedCalls ==
  { [ kind |-> "record", params |-> e ] : e \in LedgerEvents } \cup
  { [ kind |-> "switch_tier", tier |-> t ] : t \in { "primary", "critical", "tier2" } }

NextConcurrent ==
  \/ \E call \in SubmittedCalls : submit(call)
  \/ \E i \in 1..MaxRequests : handleToolRequest(i)
  \/ \E i \in 1..MaxRequests : handleRecordRequest(i)

SpecConcurrent == InitMemory /\ [][NextConcurrent]_vars

(* Trackers constructed with capacities down to zero: recordTask and      *)
(* startNewSession called on them, each recordTask activation a step; an   *)
(* activation that is due is eventually run                                *)
CapacityPairs == { << 0, 0 >>, << 0, 1 >>, << 1, 0 >>, << 1, 1 >>, << 2, 2 >> }

InitCapacity ==
  /\ strategy = "2-tier"
  /\ currentTier = "primary"
  /\ autoMode = TRUE
  /\ ruleStrategy = strategy
  /\ errorWindow = << >>
  /\ requests = NoRequests
  /\ modelConfig = DefaultModelConfig
  /\ rules = DefaultRules
  /\ budget = DefaultBudget
  /\ usage = [ records |-> << >>, monthly_totals |-> EmptyMap ]
  /\ memory \in { FreshMemory(c[1], c[2]) : c \in CapacityPairs }
  /\ now = 0
  /\ last = [ op |-> "startup" ]

NextCapacity ==
  \/ \E t \in MemoryTasks, tierUsed \in MemoryTiers, success \in BOOLEAN :
        enterRecordTask(t, tierUsed, success)
  \/ reenterRecordTask
  \/ startNewSessionWhenIdle

SpecCapacity == InitCapacity /\ [][NextCapacity]_vars /\ WF_vars(reenterRecordTask)

(* The tracker over a store that may fail: every write of memory.json may  *)
(* throw, and a startup may find the file unreadable                       *)
NextStore ==
  \/ \E t \in MemoryTasks, tierUsed \in MemoryTiers :
        callRecordTask(t, tierUsed, TRUE)
  \/ \E t \in MemoryTasks, tierUsed \in MemoryTiers :
        callRecordTaskSaveFails(t, tierUsed, TRUE)
  \/ callStartNewSession
  \/ callStartNewSessionSaveFails
  \/ restart
  \/ restartUnreadable

SpecStore == InitMemory /\ [][NextStore]_vars

------------------------------------------------------------------------------
(* The dispatcher over a session of three entries: every exposed operation *)
(* on a ledger that holds a record, with sessions long enough to show what *)
(* a switch appends                                                        *)

SwitchOrchestrateCalls ==
  { << "design_security", None, TRUE >>, << "list_files", None, TRUE >>,
    << "design_security", None, FALSE >>, << "hello", "critical", TRUE >>,
    << "hello", "tier2", TRUE >> }

InitSwitch ==
  /\ strategy \in StrategyTypes
  /\ currentTier = (IF strategy = "2-tier" THEN "primary" ELSE "tier1")
  /\ autoMode = TRUE
  /\ ruleStrategy = strategy
  /\ errorWindow = << >>
  /\ requests = NoRequests
  /\ modelConfig = DefaultModelConfig
  /\ rules = DefaultRules
  /\ budget = DefaultBudget
  /\ usage = [ records |-> << >>, monthly_totals |-> EmptyMap ]
  /\ memory = FreshMemory(3, 1)
  /\ now = 0
  /\ last = [ op |-> "startup" ]

NextSwitch ==
  \/ \E tier \in Tiers : handleSwitchTier(tier)
  \/ \E enabled \in BOOLEAN : handleSetAutoMode(enabled, None)
  \/ \E c \in SwitchOrchestrateCalls : handleOrchestrate(c[1], c[2], c[3])
  \/ handleGetStatus
  \/ \E c \in SetBudgetCalls : handleSetBudget(c[1], c[2])
  \/ \E params \in UsageEvents : record(params)

SpecSwitch == InitSwitch /\ [][NextSwitch]_vars

(* Errors recorded between orchestrate calls: tasks the keyword rules send *)
(* to the top tier, tasks they and the cost heuristic send to the lowest,  *)
(* and a task nothing matches, with and without automatic switching, under *)
(* budgets that block and that do not                                      *)
EscalationTasks == { "design_security", "list_files", "hello" }

NextEscalation ==
  \/ recordError
  \/ \E t \in EscalationTasks, a \in BOOLEAN : handleOrchestrate(t, None, a)
  \/ \E enabled \in BOOLEAN : handleSetAutoMode(enabled, None)
  \/ handleSetBudget(1000, 80)
  \/ \E params \in UsageEvents : record(params)

SpecEscalation == InitSwitch /\ [][NextEscalation]_vars

(* The same operations under configurations whose tier mapping names a     *)
(* model the provider does not have, a provider that is not configured,    *)
(* and a reference without a provider part                                 *)
BrokenModelConfig ==
  [ DefaultModelConfig EXCEPT
      !.tier_models["2-tier"].critical = <<"a","n","t","h","r","o","p","i","c",":","g","p","t">>,
      !.tier_models["3-tier"].tier2 = <<"o","p","e","n","a","i",":","s","o","n","n","e","t">>,
      !.tier_models["3-tier"].tier3 = <<"o","p","u","s">> ]

InitModels ==
  /\ strategy \in StrategyTypes
  /\ currentTier = (IF strategy = "2-tier" THEN "primary" ELSE "tier1")
  /\ autoMode = TRUE
  /\ ruleStrategy = strategy
  /\ errorWindow = << >>
  /\ requests = NoRequests
  /\ modelConfig \in { DefaultModelConfig, BrokenModelConfig }
  /\ rules = DefaultRules
  /\ budget = DefaultBudget
  /\ usage = [ records |-> << >>, monthly_totals |-> EmptyMap ]
  /\ memory = FreshMemory(3, 1)
  /\ now = 0
  /\ last = [ op |-> "startup" ]

SpecModels == InitModels /\ [][NextSwitch]_vars

------------------------------------------------------------------------------
(* The error window under a running clock: errors recorded, counted and    *)
(* read by the classifier minutes apart, with escalation enabled or not    *)

TickSteps == { 10, 30 }

InitWindow ==
  /\ strategy = "2-tier"
  /\ currentTier = "primary"
  /\ autoMode = TRUE
  /\ ruleStrategy = strategy
  /\ errorWindow = << >>
  /\ requests = NoRequests
  /\ modelConfig = DefaultModelConfig
  /\ rules \in { [ DefaultRules EXCEPT !.error_escalation.enabled = e ] :
                    e \in BOOLEAN }
  /\ budget = DefaultBudget
  /\ usage = [ records |-> << >>, monthly_totals |-> EmptyMap ]
  /\ memory \in { FreshMemory(n, m) : n \in EntryCapacities, m \in SessionCapacities }
  /\ now = 0
  /\ last = [ op |-> "startup" ]

NextWindow ==
  \/ recordError
  \/ getErrorCount
  \/ \E a \in BOOLEAN : handleOrchestrate("hello", None, a)
  \/ \E minutes \in TickSteps : tick(minutes)

SpecWindow == InitWindow /\ [][NextWindow]_vars

------------------------------------------------------------------------------
(* Properties *)

tiersOf(s) ==
  IF s = "2-tier" THEN { "primary", "critical" } ELSE { "tier1", "tier2", "tier3" }

cheapestOf(s) == IF s = "2-tier" THEN "primary" ELSE "tier1"

mentionsBudget(reason) ==
  \E k \in 1..Len(reason) :
     reason[k] \in { "(budget blocked)", "budget limit - forced fallback" }

(* Whether the ledger is blocked under the budget in force: some           *)
(* block_high_tier threshold is at or below spent / limit * 100            *)
spentNow ==
  IF getMonthKey(now) \in DOMAIN usage.monthly_totals
  THEN usage.monthly_totals[getMonthKey(now)].total_cost ELSE 0

blockedNow ==
  /\ budget.defined
  /\ budget.monthly_limit_usd > 0
  /\ \E k \in 1..Len(budget.alert_thresholds) :
        /\ budget.alert_thresholds[k].action = "block_high_tier"
        /\ spentNow * 100 >= budget.alert_thresholds[k].percent * budget.monthly_limit_usd

(* C1: whenever the ledger is blocked and classifyTask proposes a high-cost *)
(* tier, orchestrate resolves to the lowest tier of the strategy, not to    *)
(* the proposed tier, with a reason that mentions the budget block.         *)
C1_BudgetGateOnClassification ==
  ( /\ last.op = "orchestrate"
    /\ last.result = "ok"
    /\ last.classified
    /\ blockedNow
    /\ last.proposed \in { "critical", "tier2", "tier3" } )
  => /\ last.target_tier = cheapestOf(strategy)
     /\ last.target_tier # last.proposed
     /\ mentionsBudget(last.reason)

(* limit 10.00, spent 10.50, block at 100%: a security task that the rules *)
(* send to critical resolves to primary                                     *)
C1_Witness ==
  /\ last.op = "orchestrate"
  /\ strategy = "2-tier"
  /\ budget.monthly_limit_usd = 1000
  /\ spentNow = 1050
  /\ last.rule_name = "security_keywords"
  /\ last.proposed = "critical"
  /\ last.target_tier = "primary"

(* C2: while the ledger is blocked, the tier an orchestrate call resolves  *)
(* is never a high-cost tier, and it is a tier of the active strategy.     *)
C2_NeverHighCostWhileBlocked ==
  ( /\ last.op = "orchestrate"
    /\ last.result = "ok"
    /\ blockedNow )
  => /\ last.target_tier \notin { "critical", "tier2", "tier3" }
     /\ last.target_tier \in tiersOf(strategy)

(* C3: a legal forced tier is resolved without classifyTask: to itself     *)
(* when the ledger is not blocked or the tier is not high-cost, to the     *)
(* lowest tier of the strategy otherwise.                                  *)
C3_ForcedTierGated ==
  ( /\ last.op = "orchestrate"
    /\ last.force_tier # None
    /\ last.result = "ok" )
  => /\ ~last.classified
     /\ last.rule_name = None
     /\ last.force_tier \in tiersOf(strategy)
     /\ last.target_tier =
          IF blockedNow /\ last.force_tier \in { "critical", "tier2", "tier3" }
          THEN cheapestOf(strategy) ELSE last.force_tier

(* a forced tier3 falls back to tier1 under a blocked ledger, with an     *)
(* error window that would have escalated a classified call               *)
C3_Witness ==
  /\ last.op = "orchestrate"
  /\ last.force_tier = "tier3"
  /\ last.result = "ok"
  /\ blockedNow
  /\ last.target_tier = "tier1"
  /\ Len(errorWindow) >= ErrorThreshold

(* C4: for every task and every current tier, classifyTask returns null or *)
(* a tier of the active strategy, whatever the error window and the        *)
(* session memory hold.                                                    *)
C4_ClassifyWithinStrategy ==
  \A t \in Tasks, tier \in Tiers :
     classifyTask(TaskText[t], tier).target_tier \in tiersOf(strategy) \cup { None }

(* the memory recommends a tier recorded under the other strategy and the  *)
(* call made on it found no match                                          *)
C4_Witness ==
  /\ last.op = "orchestrate"
  /\ strategy = "3-tier"
  /\ getRecommendedTier(memory, TaskText["hello"]) = "critical"
  /\ last.classified
  /\ last.rule_name = None

(* C5: currentTier is a tier of the current strategy.                      *)
C5_TierOfStrategy == currentTier \in tiersOf(strategy)

(* set_auto_mode changed the strategy while the tier was critical          *)
C5_Witness ==
  /\ last.op = "set_auto_mode"
  /\ last.strategy_changed
  /\ last.previous_tier = "critical"
  /\ strategy = "3-tier"
  /\ currentTier = "tier1"

(* C6: switch_tier with a tier that is not of the current strategy, and    *)
(* orchestrate with such a force_tier, fail with an invalid-tier result    *)
(* and leave the dispatcher state, the memory and the ledger as they were. *)
C6_InvalidTierRejected ==
  [][ /\ ( last'.op = "switch_tier" /\ last'.tier \notin tiersOf(strategy) )
         => /\ last'.result = "invalid_tier"
            /\ UNCHANGED << currentTier, strategy, autoMode, memory, usage >>
      /\ ( /\ last'.op = "orchestrate"
           /\ last'.force_tier # None
           /\ last'.force_tier \notin tiersOf(strategy) )
         => /\ last'.result \in { "invalid_tier", "invalid_task" }
            /\ UNCHANGED << currentTier, strategy, autoMode, memory, usage >>
    ]_vars

(* an orchestrate call was refused for its force_tier while the session    *)
(* already held an entry                                                   *)
C6_Witness ==
  /\ last.op = "orchestrate"
  /\ last.result = "invalid_tier"
  /\ memory.sessions[getCurrentSession(memory)].entries # << >>

(* C7: setStrategy(s) sets the strategy of the dispatcher and of the rule  *)
(* engine to s and the tier to the lowest tier of s, and leaves autoMode,  *)
(* the memory and the ledger alone.                                        *)
C7_SetStrategyResets ==
  [][ /\ last'.op = "setStrategy"
         => /\ strategy' = last'.strategy
            /\ ruleStrategy' = last'.strategy
            /\ currentTier' = cheapestOf(last'.strategy)
            /\ UNCHANGED << autoMode, memory, usage >>
      /\ ( last'.op = "set_auto_mode" /\ last'.strategy_changed )
         => /\ strategy' = last'.strategy
            /\ ruleStrategy' = last'.strategy
            /\ currentTier' = cheapestOf(last'.strategy)
            /\ UNCHANGED << memory, usage >>
    ]_vars

(* setStrategy("3-tier") while the tier was critical gave tier1            *)
C7_Witness ==
  /\ last.op = "setStrategy"
  /\ last.previous_tier = "critical"
  /\ last.strategy = "3-tier"
  /\ currentTier = "tier1"
  /\ ruleStrategy = "3-tier"

(* C8: orchestrate changes currentTier exactly when the resolved tier      *)
(* differs from it, autoMode is on and autoSwitch is true, and then to the *)
(* resolved tier; otherwise it leaves currentTier, strategy, autoMode and  *)
(* the memory as they were.                                                *)
C8_SwitchOnlyWhenAllowed ==
  [][ last'.op = "orchestrate"
      => LET allowed == /\ last'.result = "ok"
                        /\ last'.target_tier # currentTier
                        /\ autoMode
                        /\ last'.auto_switch
         IN /\ (currentTier' # currentTier) <=> allowed
            /\ allowed => currentTier' = last'.target_tier
            /\ ~allowed => UNCHANGED << currentTier, strategy, autoMode, memory >>
    ]_vars

(* a recommendation was reported with auto mode off and nothing switched   *)
C8_Witness ==
  /\ last.op = "orchestrate"
  /\ last.result = "ok"
  /\ ~autoMode
  /\ last.target_tier # currentTier
  /\ ~last.switched

(* The keyword rules whose patterns the lower-cased task contains *)
MatchingRules ==
  [ t \in Tasks |->
      { r \in RuleNames :
          \E k \in 1..Len(KeywordRuleTable[r].patterns) :
             includes(toLowerCase(TaskText[t]), KeywordRuleTable[r].patterns[k]) } ]

TopRule ==
  [ t \in Tasks |->
      IF MatchingRules[t] = {} THEN None
      ELSE CHOOSE r \in MatchingRules[t] :
             \A q \in MatchingRules[t] :
                KeywordRuleTable[q].priority <= KeywordRuleTable[r].priority ]

SimpleTasks ==
  { t \in Tasks :
      \E k \in 1..Len(simple_task_patterns) :
         includes(toLowerCase(TaskText[t]), simple_task_patterns[k]) }

errorsInWindow ==
  Cardinality({ k \in 1..Len(errorWindow) : errorWindow[k] > now - WindowMinutes })

belowCeiling(s, tier) ==
  \/ s = "2-tier" /\ tier = "primary"
  \/ s = "3-tier" /\ tier \in { "tier1", "tier2" }

escalates(tier) == errorsInWindow >= ErrorThreshold /\ belowCeiling(strategy, tier)

(* C9 as stated: when two or more keyword rules match a task, classifyTask *)
(* returns the target of the matching rule of highest priority.            *)
C9_TopKeywordRuleAlways ==
  \A t \in Tasks :
     Cardinality(MatchingRules[t]) >= 2
     => classifyTask(TaskText[t], currentTier).target_tier
          = KeywordRuleTable[TopRule[t]].target_tier[strategy]

(* C9: when two or more keyword rules match a task and error escalation    *)
(* contributes no match, classifyTask returns the matching rule of highest *)
(* priority and its target, in whatever order the rules are declared; when *)
(* escalation contributes too, its match wins; when nothing contributes a  *)
(* match, classifyTask returns null.                                       *)
C9_TopKeywordRuleUnlessEscalated ==
  \A t \in Tasks, tier \in Tiers :
     LET m == classifyTask(TaskText[t], tier)
     IN /\ ( Cardinality(MatchingRules[t]) >= 2 /\ ~escalates(tier) )
           => /\ m.rule_name = TopRule[t]
              /\ m.target_tier = KeywordRuleTable[TopRule[t]].target_tier[strategy]
        /\ ( Cardinality(MatchingRules[t]) >= 2 /\ escalates(tier) )
           => m.rule_name = "error_escalation"
        /\ ( /\ MatchingRules[t] = {}
             /\ ~escalates(tier)
             /\ t \notin SimpleTasks
             /\ getRecommendedTier(memory, TaskText[t]) \notin tiersOf(strategy) )
           => m = NoMatch

(* implementation_keywords (60) won over exploration_keywords (50), which  *)
(* is declared before it                                                   *)
C9_Witness ==
  /\ last.op = "orchestrate"
  /\ rules.keyword_rules = DefaultRuleOrder
  /\ strategy = "3-tier"
  /\ last.rule_name = "implementation_keywords"
  /\ last.proposed = "tier2"
  /\ errorsInWindow < ErrorThreshold

(* C10: an error-escalation match targets exactly the next tier of the     *)
(* active strategy, primary -> critical or tier1 -> tier2 -> tier3; from   *)
(* the top tier, and from a tier of the other strategy, there is no        *)
(* escalation match, however many errors the window holds.                 *)
C10_EscalationBelowCeiling ==
  \A t \in Tasks, tier \in Tiers :
     LET m == classifyTask(TaskText[t], tier)
     IN /\ m.rule_name = "error_escalation"
           => /\ errorsInWindow >= ErrorThreshold
              /\ << tier, m.target_tier >> \in
                   ( IF strategy = "2-tier"
                     THEN { << "primary", "critical" >> }
                     ELSE { << "tier1", "tier2" >>, << "tier2", "tier3" >> } )
        /\ ~belowCeiling(strategy, tier) => m.rule_name # "error_escalation"
        /\ escalates(tier) => m.rule_name = "error_escalation"

(* the window held three errors at the ceiling tier3 and the call made     *)
(* there was not escalated                                                 *)
C10_Witness ==
  /\ last.op = "orchestrate"
  /\ last.classified
  /\ strategy = "3-tier"
  /\ currentTier = "tier3"
  /\ errorsInWindow >= ErrorThreshold
  /\ last.rule_name # "error_escalation"
  /\ ~last.switched

(* The tier one step above, in the escalation order of the strategy *)
oneStepUp(s, tier) ==
  IF s = "2-tier" THEN "critical" ELSE IF tier = "tier1" THEN "tier2" ELSE "tier3"

(* C11: when escalation is enabled, the window holds at least threshold     *)
(* errors and the current tier is below the ceiling, classifyTask returns  *)
(* the error-escalation match, one tier above the current tier, for every  *)
(* task, whatever keyword rules match it and whatever their priority.      *)
C11_EscalationOutranksKeywords ==
  \A t \in Tasks :
     ( rules.error_escalation.enabled /\ escalates(currentTier) )
     => /\ classifyTask(TaskText[t], currentTier).rule_name = "error_escalation"
        /\ classifyTask(TaskText[t], currentTier).target_tier
             = oneStepUp(strategy, currentTier)

ArchitectureTasks ==
  { t \in Tasks :
      includes(toLowerCase(TaskText[t]),
               <<"a","r","c","h","i","t","e","c","t","u","r","e">>) }

(* C12: with the default rule table and fewer errors in the window than    *)
(* the threshold, every task whose lower-cased text contains               *)
(* "architecture" is classified by architecture_keywords, to critical      *)
(* under 2-tier and to tier3 under 3-tier, whatever other keyword rules    *)
(* match, whatever the current tier and whatever the session memory holds. *)
C12_ArchitectureToTopTier ==
  \A t \in ArchitectureTasks, tier \in Tiers :
     errorsInWindow < ErrorThreshold
     => /\ classifyTask(TaskText[t], tier).rule_name = "architecture_keywords"
        /\ classifyTask(TaskText[t], tier).target_tier
             = (IF strategy = "2-tier" THEN "critical" ELSE "tier3")

(* an architecture task was sent to critical from primary, with            *)
(* architecture_keywords declared last, two errors in the window and the   *)
(* session holding an entry                                                *)
C12_Witness ==
  /\ last.op = "orchestrate"
  /\ last.rule_name = "architecture_keywords"
  /\ last.proposed = "critical"
  /\ last.switched
  /\ rules.keyword_rules[Len(rules.keyword_rules)] = "architecture_keywords"
  /\ errorsInWindow = ErrorThreshold - 1
  /\ memory.sessions[getCurrentSession(memory)].entries # << >>

(* The records of the ledger made in month k *)
recordsOfMonth(k) ==
  SelectSeq(usage.records, LAMBDA r : getMonthKey(r.timestamp) = k)

RECURSIVE sumOfCosts(_)
sumOfCosts(rs) ==
  IF rs = << >> THEN 0 ELSE rs[1].cost_usd + sumOfCosts(Tail(rs))

RECURSIVE sumOfTokens(_)
sumOfTokens(rs) ==
  IF rs = << >> THEN 0
  ELSE rs[1].input_tokens + rs[1].output_tokens + sumOfTokens(Tail(rs))

RECURSIVE sumOfBuckets(_, _)
sumOfBuckets(map, keys) ==
  IF keys = {} THEN [ cost |-> 0, tokens |-> 0 ]
  ELSE [ cost |-> map[CHOOSE k \in keys : TRUE].cost
                    + sumOfBuckets(map, keys \ { CHOOSE k \in keys : TRUE }).cost,
         tokens |-> map[CHOOSE k \in keys : TRUE].tokens
                    + sumOfBuckets(map, keys \ { CHOOSE k \in keys : TRUE }).tokens ]

(* C13: after any sequence of record and clear calls from an empty ledger, *)
(* every record belongs to a month that has totals, and for every month    *)
(* the total cost equals the sum of the costs of that month's records, of  *)
(* the by_tier costs and of the by_model costs; the same for the tokens.   *)
C13_LedgerTotalsMatchRecords ==
  /\ \A i \in 1..Len(usage.records) :
        getMonthKey(usage.records[i].timestamp) \in DOMAIN usage.monthly_totals
  /\ \A k \in DOMAIN usage.monthly_totals :
        /\ usage.monthly_totals[k].total_cost = sumOfCosts(recordsOfMonth(k))
        /\ usage.monthly_totals[k].total_tokens = sumOfTokens(recordsOfMonth(k))
        /\ sumOfBuckets(usage.monthly_totals[k].by_tier,
                        DOMAIN usage.monthly_totals[k].by_tier)
             = [ cost |-> usage.monthly_totals[k].total_cost,
                 tokens |-> usage.monthly_totals[k].total_tokens ]
        /\ sumOfBuckets(usage.monthly_totals[k].by_model,
                        DOMAIN usage.monthly_totals[k].by_model)
             = [ cost |-> usage.monthly_totals[k].total_cost,
                 tokens |-> usage.monthly_totals[k].total_tokens ]

(* three records in two months, the first month with two calls of the same *)
(* tier and model                                                          *)
C13_Witness ==
  /\ Len(usage.records) = 3
  /\ DOMAIN usage.monthly_totals = { 0, 1 }
  /\ Len(recordsOfMonth(0)) = 2
  /\ DOMAIN usage.monthly_totals[0].by_tier = { "primary" }
  /\ usage.monthly_totals[0].by_tier["primary"].cost = 108

(* C14: a record call that fails to write the store leaves the record list *)
(* and the month totals of the ledger as they were before the call.        *)
C14_RecordTransactional ==
  [][ ( last'.op = "record" /\ "error" \in DOMAIN last' ) => UNCHANGED usage ]_vars

(* C15: in every status result, triggered_alerts is the thresholds whose   *)
(* percent is at most the percent_used of the same result, by percent      *)
(* descending, and is_blocked is true exactly when one of them has the     *)
(* block_high_tier action.                                                 *)
C15_AlertsMatchReportedPercent ==
  last.op = "get_status"
  => /\ last.usage.triggered_alerts
          = sortByPercentDesc(SelectSeq(budgetOrFallback(budget).alert_thresholds,
               LAMBDA th : th.percent * 10 <= last.usage.percent_used_tenths))
     /\ last.usage.is_blocked
          <=> \E k \in 1..Len(last.usage.triggered_alerts) :
                 last.usage.triggered_alerts[k].action = "block_high_tier"
(* The block_high_tier thresholds of the budget in force *)
blockThresholds ==
  { budget.alert_thresholds[k] : k \in { j \in 1..Len(budget.alert_thresholds) :
        budget.alert_thresholds[j].action = "block_high_tier" } }

(* The ledger is blocked under a monthly limit: spent / limit * 100 is at  *)
(* or above some block threshold                                           *)
blockedUnder(limit) ==
  \E th \in blockThresholds : reaches(spentNow, limit, th.percent)

(* C16: blocking is never latched. When set_budget has just raised the     *)
(* limit of a blocked ledger so that spent / limit * 100 is below every    *)
(* block threshold, the very next get_status reports is_blocked = false    *)
(* and the very next orchestrate is not budget-gated; when set_budget has  *)
(* just lowered the limit below the spend, the very next orchestrate that  *)
(* asks for a high-cost tier is gated to the lowest tier.                  *)
C16_BlockingNotLatched ==
  [][ ( last.op = "set_budget" /\ last.result = "ok" ) =>
        /\ ( blockedUnder(last.previous_limit) /\ ~blockedUnder(last.monthly_limit) ) =>
              ( /\ ( last'.op = "get_status" => ~last'.usage.is_blocked )
                /\ ( last'.op = "orchestrate" =>
                       ( /\ ~last'.is_blocked
                         /\ ~mentionsBudget(last'.reason)
                         /\ ( last'.force_tier # None =>
                                last'.target_tier = last'.force_tier )
                         /\ ( last'.proposed # None =>
                                last'.target_tier = last'.proposed ) ) ) )
        /\ ( /\ last.monthly_limit < last.previous_limit
             /\ last.monthly_limit < spentNow
             /\ \E th \in blockThresholds : th.percent <= 100 ) =>
              ( ( /\ last'.op = "orchestrate"
                  /\ last'.result = "ok"
                  /\ ( last'.proposed \in highCostTiers
                       \/ last'.force_tier \in highCostTiers ) ) =>
                ( /\ last'.is_blocked
                  /\ last'.target_tier = lowestTier(strategy)
                  /\ mentionsBudget(last'.reason) ) )
    ]_vars

(* set_budget has just raised the limit of a blocked ledger far enough *)
C16_Witness ==
  /\ last.op = "set_budget"
  /\ last.result = "ok"
  /\ last.monthly_limit > last.previous_limit
  /\ blockedUnder(last.previous_limit)
  /\ ~blockedUnder(last.monthly_limit)
  /\ spentNow > 0

(* What get_status would report in the present state *)
statusNow == getStatus(usage, budgetOrFallback(budget), now)

(* The figures of a status that the claim compares *)
figures(st) ==
  << st.spent_usd, st.remaining_usd, st.percent_used_tenths, st.triggered_alerts,
     st.is_blocked >>

(* C17: get_status is a pure read. It changes neither the ledger, the     *)
(* session memory, the error window nor the dispatcher state, and what it  *)
(* reports is the status of the present ledger under the present budget at *)
(* the present time; no operation other than a ledger write, a budget      *)
(* change or a change of month changes any of the three, so two get_status *)
(* calls with none of these between them report the same figures, in       *)
(* particular two calls in a row.                                          *)
C17_GetStatusPureRead ==
  [][ /\ last'.op = "get_status" =>
           ( /\ UNCHANGED << usage, memory, errorWindow, currentTier, strategy,
                             autoMode, ruleStrategy, rules, modelConfig, requests, budget, now >>
             /\ figures(last'.usage) = figures(statusNow) )
      /\ last'.op \notin { "record", "clear", "set_budget", "nextMonth" } =>
           UNCHANGED << usage, budget, now >>
      /\ ( last.op = "get_status" /\ last'.op = "get_status" ) =>
           figures(last'.usage) = figures(last.usage)
    ]_vars

(* A second get_status in a row, on a ledger with spend and a session with *)
(* an entry                                                                *)
C17_Witness ==
  /\ last.op = "get_status"
  /\ last.usage.spent_usd > 0
  /\ last.usage.alert_triggered
  /\ \E i \in 1..Len(memory.sessions) : memory.sessions[i].entries # << >>

(* The entries of the current session of a tracker *)
currentEntries(mem) == mem.sessions[getCurrentSession(mem)].entries

(* The last n elements of a sequence, or all of it when it is shorter *)
lastOf(q, n) ==
  IF Len(q) <= n THEN q ELSE SubSeq(q, Len(q) - n + 1, Len(q))

(* C18: a session never holds more than N = maxEntriesPerSession entries,  *)
(* it starts empty, and each recordTask leaves in the current session the  *)
(* N most recent of the entries held before followed by the new entry, in  *)
(* the order they were recorded: after k calls, the min(k, N) most recent. *)
C18_SessionKeepsMostRecent ==
  /\ [] ( \A i \in 1..Len(memory.sessions) :
             Len(memory.sessions[i].entries) <= memory.maxEntriesPerSession )
  /\ [][ /\ last'.op \in { "startNewSession", "clearMemory" } =>
               currentEntries(memory') = << >>
         /\ last'.op = "recordTask" =>
               currentEntries(memory') =
                  lastOf(Append(currentEntries(memory), last'.entry),
                         memory.maxEntriesPerSession)
       ]_vars

(* An outcome recorded into a full session of capacity three *)
C18_Witness ==
  /\ last.op = "recordTask"
  /\ memory.maxEntriesPerSession = 3
  /\ last.held_before = 3
  /\ currentEntries(memory)[3] = last.entry
  /\ currentEntries(memory)[1] # currentEntries(memory)[2]

(* The session_ids of the retained sessions, in list order *)
retainedIds(mem) == [ i \in 1..Len(mem.sessions) |-> mem.sessions[i].session_id ]

(* C19: with maxSessions = M >= 1 the store retains at most M sessions;    *)
(* they are the most recently started ones, in start order (the session    *)
(* started last is at the end and no session started after a retained one  *)
(* is missing); current_session_id is the id of a retained session. Each   *)
(* startNewSession leaves the M most recent of the sessions held before    *)
(* followed by the new one, and clear leaves the new session alone.        *)
C19_SessionsKeepMostRecent ==
  /\ [] ( memory.maxSessions >= 1 =>
            /\ Len(memory.sessions) <= memory.maxSessions
            /\ \A i \in 1..Len(memory.sessions) :
                  memory.sessions[i].session_id =
                     memory.next_id - (Len(memory.sessions) - i + 1)
            /\ \E i \in 1..Len(memory.sessions) :
                  memory.sessions[i].session_id = memory.current_session_id )
  /\ [][ memory.maxSessions >= 1 =>
           /\ last'.op = "startNewSession" =>
                 /\ retainedIds(memory') =
                       lastOf(Append(retainedIds(memory), last'.session_id),
                              memory.maxSessions)
                 /\ \A i \in 1..Len(memory'.sessions) :
                       \A j \in 1..Len(memory.sessions) :
                          memory'.sessions[i].session_id = memory.sessions[j].session_id
                            => memory'.sessions[i] = memory.sessions[j]
           /\ last'.op = "clearMemory" =>
                 retainedIds(memory') = << last'.session_id >>
           /\ last'.op = "recordTask" =>
                 retainedIds(memory') = retainedIds(memory)
       ]_vars

(* A session started on a full list of two sessions: the older one, with   *)
(* its entries, was dropped and the other kept                             *)
C19_Witness ==
  /\ last.op = "startNewSession"
  /\ memory.maxSessions = 2
  /\ last.held_before = 2
  /\ Len(memory.sessions) = 2
  /\ memory.sessions[1].entries # << >>
  /\ memory.current_session_id = last.session_id

(* The positions in the current session of the successful entries of a    *)
(* category, and of those among them that used a tier                      *)
successesOf(pattern) ==
  { k \in 1..Len(currentEntries(memory)) :
      /\ currentEntries(memory)[k].task_pattern = pattern
      /\ currentEntries(memory)[k].success }

successesOn(pattern, tier) ==
  { k \in successesOf(pattern) : currentEntries(memory)[k].tier_used = tier }

firstOn(pattern, tier) ==
  CHOOSE k \in successesOn(pattern, tier) :
     \A j \in successesOn(pattern, tier) : k <= j

(* C20: getRecommendedTier returns none when the current session has no    *)
(* successful entry of the task's category; otherwise it returns a tier    *)
(* that has such an entry, no tier has more of them, and every other tier  *)
(* with as many has its first one later in the session. Failed entries and *)
(* entries of other categories do not enter the count.                     *)
C20_RecommendMostUsedOldestFirst ==
  last.op = "getRecommendedTier" =>
    IF successesOf(last.pattern) = {}
    THEN last.tier = None
    ELSE /\ successesOn(last.pattern, last.tier) # {}
         /\ \A t \in { currentEntries(memory)[k].tier_used :
                           k \in successesOf(last.pattern) } :
               \/ Cardinality(successesOn(last.pattern, t))
                     < Cardinality(successesOn(last.pattern, last.tier))
               \/ /\ Cardinality(successesOn(last.pattern, t))
                       = Cardinality(successesOn(last.pattern, last.tier))
                  /\ firstOn(last.pattern, last.tier) <= firstOn(last.pattern, t)

(* Two tiers with one success each, the recommended one first, and a       *)
(* failed entry of the same category on the other tier                     *)
C20_Witness ==
  /\ last.op = "getRecommendedTier"
  /\ last.tier = "critical"
  /\ Len(currentEntries(memory)) = 3
  /\ successesOf(last.pattern) = { 1, 2 }
  /\ currentEntries(memory)[2].tier_used = "primary"
  /\ currentEntries(memory)[3] =
        [ task_pattern |-> last.pattern, tier_used |-> "primary", success |-> FALSE ]

(* A tracker that holds the current session of mem and no other *)
onlyCurrent(mem) ==
  [ mem EXCEPT !.sessions = << mem.sessions[getCurrentSession(mem)] >> ]

(* C21: no carryover across sessions. Right after startNewSession (and     *)
(* after clear) the active session has no entries and getRecommendedTier   *)
(* returns none for every task; every recommendation and every summary is  *)
(* what a tracker holding the active session alone would return; and no    *)
(* step changes a retained session other than the active one, so           *)
(* recordTask appends to the active session only.                          *)
C21_NoCrossSessionCarryover ==
  /\ [] ( /\ last.op \in { "startNewSession", "clearMemory" } =>
               /\ currentEntries(memory) = << >>
               /\ \A t \in MemoryTasks :
                     getRecommendedTier(memory, TaskText[t]) = None
          /\ last.op = "getRecommendedTier" =>
               last.tier = sessionRecommendation(onlyCurrent(memory), 1, last.pattern)
          /\ last.op = "getSessionSummary" =>
               last.summary = getSessionSummary(onlyCurrent(memory)) )
  /\ [][ \A i \in 1..Len(memory'.sessions) : \A j \in 1..Len(memory.sessions) :
           ( /\ memory'.sessions[i].session_id = memory.sessions[j].session_id
             /\ memory'.sessions[i].session_id # memory'.current_session_id )
           => memory'.sessions[i] = memory.sessions[j]
       ]_vars

(* A recommendation asked for a category that only the superseded session  *)
(* has a success of: none                                                  *)
C21_Witness ==
  /\ last.op = "getRecommendedTier"
  /\ last.tier = None
  /\ Len(memory.sessions) = 2
  /\ getCurrentSession(memory) = 2
  /\ currentEntries(memory) # << >>
  /\ relevantIn(memory.sessions[1].entries, last.pattern) # << >>

(* The entry recordTierSwitch hands to the session *)
switchEntry(fromTier, toTier) ==
  [ task_pattern |-> PatternOf[tierSwitchText(fromTier, toTier)],
    tier_used |-> toTier, success |-> TRUE ]

(* C22: a successful switch_tier appends to the active session exactly one *)
(* entry, the tier-switch entry with tier_used the new tier and success    *)
(* true; an orchestrate that switches appends exactly one such entry and   *)
(* after it the successful outcome of the task on the new tier; a rejected *)
(* switch_tier and an orchestrate that does not switch leave the memory as *)
(* it is; and switch_tier, set_auto_mode, orchestrate, get_status and      *)
(* set_budget never change the ledger.                                     *)
C22_SwitchRecordedLedgerUntouched ==
  [][ /\ ( last'.op = "switch_tier" /\ last'.result = "ok" ) =>
           /\ currentTier' = last'.tier
           /\ currentEntries(memory') =
                 lastOf(Append(currentEntries(memory),
                               switchEntry(currentTier, last'.tier)),
                        memory.maxEntriesPerSession)
      /\ ( last'.op = "switch_tier" /\ last'.result # "ok" ) => UNCHANGED memory
      /\ ( last'.op = "orchestrate" /\ last'.switched ) =>
           /\ currentTier' = last'.target_tier
           /\ \E t \in Tasks :
                 currentEntries(memory') =
                   lastOf(currentEntries(memory)
                            \o << switchEntry(currentTier, last'.target_tier),
                                  [ task_pattern |-> PatternOf[TaskText[t]],
                                    tier_used |-> last'.target_tier,
                                    success |-> TRUE ] >>,
                          memory.maxEntriesPerSession)
      /\ ( last'.op = "orchestrate" /\ ~last'.switched ) =>
           UNCHANGED << memory, currentTier >>
      /\ last'.op \in { "switch_tier", "set_auto_mode", "orchestrate", "get_status",
                        "set_budget" } => UNCHANGED usage
    ]_vars

(* An orchestrate has switched on a ledger that holds a record: the session *)
(* ends with the tier-switch entry and the task's outcome                   *)
C22_Witness ==
  /\ last.op = "orchestrate"
  /\ last.switched
  /\ usage.records # << >>
  /\ Len(currentEntries(memory)) = 3
  /\ currentEntries(memory)[2].task_pattern = "general"
  /\ currentEntries(memory)[3].task_pattern = "design"
  /\ currentEntries(memory)[2].tier_used = currentTier

(* C23: set_budget with a monthly limit <= 0, or with an alert percent     *)
(* below 0 or above 100, returns a failure result, and only then; the      *)
(* failed call leaves the budget (limit and thresholds), the dispatcher    *)
(* state, the ledger, the memory and the error window unchanged, and a     *)
(* get_status that follows reports against the budget limit as it was.     *)
C23_SetBudgetValidation ==
  [][ /\ last'.op = "set_budget" =>
           /\ last'.result # "ok" <=>
                 ( \/ last'.monthly_limit <= 0
                   \/ last'.alert_percent < 0
                   \/ last'.alert_percent > 100 )
           /\ last'.result # "ok" =>
                 UNCHANGED << budget, currentTier, strategy, autoMode, ruleStrategy,
                              rules, modelConfig, requests, usage, memory, errorWindow, now >>
      /\ ( last.op = "set_budget" /\ last.result # "ok" /\ last'.op = "get_status" ) =>
           /\ last'.usage.budget_usd = budget.monthly_limit_usd
           /\ last'.usage = getStatus(usage, budgetOrFallback(budget), now)
    ]_vars

(* A set_budget with a good limit and a percent out of range has failed on *)
(* a ledger with spend; the limit asked for is not the one in force        *)
C23_Witness ==
  /\ last.op = "set_budget"
  /\ last.result = "percent_error"
  /\ last.monthly_limit > 0
  /\ budget.monthly_limit_usd # last.monthly_limit
  /\ spentNow > 0

(* C24: after a successful set_budget(limit, p) the budget in force has   *)
(* the alert thresholds that set_budget reported (50% log_warning, 95%     *)
(* require_confirmation, 100% block_high_tier and p% notify_user), so that *)
(* the status of the ledger under the budget in force is blocked exactly   *)
(* when set_budget reported it blocked.                                    *)
C24_ReportedThresholdsInForce ==
  ( last.op = "set_budget" /\ last.result = "ok" ) =>
     /\ budgetOrFallback(budget).alert_thresholds = last.alert_thresholds
     /\ statusNow.triggered_alerts = last.usage.triggered_alerts
     /\ statusNow.is_blocked = last.usage.is_blocked

classifyWithoutCostOptimization(task, tier) ==
  firstMatch(sortByPriority(
    collectMatches([ rules EXCEPT !.cost_optimization.enabled = FALSE ],
                   ruleStrategy, cleanErrorWindow(rules, errorWindow, now),
                   memory, task, tier)))

(* C26: classifyTask answers with the cost-optimization match exactly when *)
(* cost optimization is enabled, no keyword rule matches, the escalation   *)
(* contributes nothing and the lower-cased task contains a simple-task     *)
(* pattern; the match targets the lowest tier of the strategy; and when a  *)
(* keyword rule or the escalation contributes a match, the answer is the   *)
(* one classifyTask gives with cost optimization disabled.                 *)
C26_CostOptimizationLast ==
  \A t \in Tasks, tier \in Tiers :
     LET m == classifyTask(TaskText[t], tier)
     IN /\ m.rule_name = "cost_optimization" <=>
             ( /\ rules.cost_optimization.enabled
               /\ MatchingRules[t] = {}
               /\ ~escalates(tier)
               /\ t \in SimpleTasks )
        /\ m.rule_name = "cost_optimization" =>
             m.target_tier = cheapestOf(strategy)
        /\ classifyWithoutCostOptimization(TaskText[t], tier).rule_name
             # "cost_optimization"
        /\ ( MatchingRules[t] # {} \/ escalates(tier) ) =>
             m = classifyWithoutCostOptimization(TaskText[t], tier)

(* A simple task, classified on tier2 with nothing else matching, was sent *)
(* down to tier1                                                           *)
C26_Witness ==
  /\ last.op = "orchestrate"
  /\ last.rule_name = "cost_optimization"
  /\ strategy = "3-tier"
  /\ last.target_tier = "tier1"
  /\ last.switched
  /\ errorsInWindow < ErrorThreshold

(* C27: the error window is purged before it is read. getErrorCount       *)
(* returns the number of errors recorded less than window_minutes ago, and *)
(* classifyTask contributes the escalation match exactly when escalation   *)
(* is enabled, at least threshold errors are that recent and the tier is   *)
(* below the ceiling, so that errors that have aged out no longer count;   *)
(* both leave only such errors in the window. recordError changes nothing  *)
(* while escalation is disabled, and otherwise adds the present instant.   *)
C27_ErrorWindowExpiry ==
  [][ /\ last'.op = "getErrorCount" =>
           /\ last'.count = errorsInWindow
           /\ \A k \in 1..Len(errorWindow') : errorWindow'[k] > now - WindowMinutes
      /\ ( last'.op = "orchestrate" /\ last'.classified ) =>
           /\ last'.rule_name = "error_escalation" <=>
                 ( /\ rules.error_escalation.enabled
                   /\ errorsInWindow >= ErrorThreshold
                   /\ belowCeiling(strategy, currentTier) )
           /\ rules.error_escalation.enabled =>
                 \A k \in 1..Len(errorWindow') : errorWindow'[k] > now - WindowMinutes
      /\ last'.op = "recordError" =>
           IF rules.error_escalation.enabled
           THEN /\ errorWindow' # << >>
                /\ errorWindow'[Len(errorWindow')] = now
                /\ Len(errorWindow') = errorsInWindow + 1
           ELSE UNCHANGED errorWindow
    ]_vars

(* getErrorCount found fewer than threshold errors after purging aged ones *)
(* from a window that had held threshold of them                           *)
C27_Witness ==
  /\ last.op = "getErrorCount"
  /\ last.purged > 0
  /\ last.count > 0
  /\ last.count < ErrorThreshold
  /\ last.count + last.purged >= ErrorThreshold

(* C28: under a budget whose monthly limit is zero or negative the status *)
(* reports percent_used = 0 whatever was spent, the triggered alerts are   *)
(* the thresholds at 0% or below, is_blocked is false when every block     *)
(* threshold is above 0%, and orchestrate is then not budget-gated.        *)
C28_NonPositiveLimitNeverBlocks ==
  budgetOrFallback(budget).monthly_limit_usd <= 0 =>
     /\ statusNow.percent_used_tenths = 0
     /\ \A k \in 1..Len(budget.alert_thresholds) :
           ( \E j \in 1..Len(statusNow.triggered_alerts) :
                statusNow.triggered_alerts[j] = budget.alert_thresholds[k] )
           <=> budget.alert_thresholds[k].percent <= 0
     /\ ( \A th \in blockThresholds : th.percent > 0 ) =>
           /\ ~statusNow.is_blocked
           /\ last.op = "get_status" =>
                 ( last.usage.percent_used_tenths = 0 /\ ~last.usage.is_blocked )
           /\ last.op = "orchestrate" =>
                 ( /\ ~last.is_blocked
                   /\ ~mentionsBudget(last.reason)
                   /\ last.force_tier # None => last.target_tier = last.force_tier
                   /\ last.proposed # None => last.target_tier = last.proposed )

(* With a limit of zero and more than 100.00 spent, orchestrate sent the   *)
(* task to the critical tier                                               *)
C28_Witness ==
  /\ budget.defined
  /\ budget.monthly_limit_usd = 0
  /\ spentNow > 10000
  /\ last.op = "orchestrate"
  /\ last.proposed = "critical"
  /\ last.target_tier = "critical"

(* C29: spend is per calendar month. The status counts the records of    *)
(* the month the clock is in and no other: spent is the sum of their       *)
(* costs; the totals of earlier months stay in the ledger under their own  *)
(* month; and in a month without a record, as right after the month has    *)
(* changed, the status reports spent = 0, percent_used = 0 and is_blocked  *)
(* = false, whatever was spent before.                                     *)
C29_SpendPerCalendarMonth ==
  /\ statusNow.spent_usd = sumOfCosts(recordsOfMonth(getMonthKey(now)))
  /\ \A k \in DOMAIN usage.monthly_totals :
        usage.monthly_totals[k].total_cost = sumOfCosts(recordsOfMonth(k))
  /\ last.op = "get_status" =>
        /\ last.usage.current_month = getMonthKey(now)
        /\ last.usage.spent_usd = sumOfCosts(recordsOfMonth(getMonthKey(now)))
  /\ ( last.op = "nextMonth" \/ recordsOfMonth(getMonthKey(now)) = << >> ) =>
        /\ statusNow.spent_usd = 0
        /\ statusNow.percent_used_tenths = 0
        /\ ~statusNow.is_blocked
        /\ last.op = "get_status" =>
              ( last.usage.spent_usd = 0 /\ ~last.usage.is_blocked )
        /\ last.op = "orchestrate" => ~last.is_blocked

(* A status asked in the month after one that was blocked at 100.50 of     *)
(* 100.00: nothing spent, not blocked, the earlier month still on record   *)
C29_Witness ==
  /\ last.op = "get_status"
  /\ budget = DefaultBudget
  /\ getMonthKey(now) = 1
  /\ recordsOfMonth(1) = << >>
  /\ sumOfCosts(recordsOfMonth(0)) >= DefaultMonthlyLimit
  /\ usage.monthly_totals[0].total_cost >= DefaultMonthlyLimit
  /\ last.usage.spent_usd = 0
  /\ ~last.usage.is_blocked

(* C30: after every startup, whether or not it finds a memory store left *)
(* by an earlier run, the active session has no entries and                *)
(* getRecommendedTier returns none for every task.                         *)
C30_StartupStartsEmptySession ==
  last.op = "startup" =>
     /\ getCurrentSession(memory) # NoSession
     /\ currentEntries(memory) = << >>
     /\ \A t \in MemoryTasks : getRecommendedTier(memory, TaskText[t]) = None

(* C31: a call that could not write the memory store, and a startup that  *)
(* could not read it, ends with a persistence error instead of completing  *)
(* normally.                                                               *)
C31_MemoryPersistenceFailureSurfaced ==
  ( "store" \in DOMAIN last ) => ( "error" \in DOMAIN last )

(* C32: when the current tier, after a switch_tier or an orchestrate that *)
(* was carried out or at a get_status, names a provider or a model the     *)
(* configuration does not have, the call ends with an error.               *)
C32_UnknownModelSurfaced ==
  ( /\ \/ last.op = "get_status"
       \/ last.op \in { "switch_tier", "orchestrate" } /\ last.result = "ok"
    /\ getCurrentModel(modelConfig, strategy, currentTier).result = "error" )
  => ( "error" \in DOMAIN last )

(* The submitted calls in the order their handlers ran *)
handledCalls ==
  [ k \in 1..Len(requests.handled) |-> requests.submitted[requests.handled[k]] ]

(* The parameters of the record calls handled, in that order *)
handledRecords ==
  LET rs == SelectSeq(handledCalls, LAMBDA c : c.kind = "record")
  IN [ k \in 1..Len(rs) |-> rs[k].params ]

(* The entries of the switch_tier calls handled that named a valid tier *)
handledSwitches ==
  LET cs == SelectSeq(handledCalls,
               LAMBDA c : c.kind = "switch_tier" /\ isValidTier(ruleStrategy, c.tier))
  IN [ k \in 1..Len(cs) |->
         [ task_pattern |-> "general", tier_used |-> cs[k].tier, success |-> TRUE ] ]

(* C33: whatever the order in which calls submitted together are handled,  *)
(* no call is handled twice, the ledger holds exactly the records of the   *)
(* record calls handled, in the order handled, the totals of the month are *)
(* the sums over them, and the session holds the entries of the tier       *)
(* switches handled, the oldest dropped beyond the capacity; once every    *)
(* call is handled the month's total is the sum over all submitted records. *)
C33_NoLostUpdate ==
  /\ \A j, k \in 1..Len(requests.handled) :
        requests.handled[j] = requests.handled[k] => j = k
  /\ Len(usage.records) = Len(handledRecords)
  /\ \A k \in 1..Len(usage.records) :
        usage.records[k] = [ timestamp |-> usage.records[k].timestamp ] @@ handledRecords[k]
  /\ ( handledRecords # << >> ) =>
        /\ getMonthKey(now) \in DOMAIN usage.monthly_totals
        /\ usage.monthly_totals[getMonthKey(now)].total_cost = sumOfCosts(handledRecords)
        /\ usage.monthly_totals[getMonthKey(now)].total_tokens
              = sumOfTokens(handledRecords)
  /\ currentEntries(memory) = lastOf(handledSwitches, memory.maxEntriesPerSession)
  /\ ( pendingRequests = {} /\ handledRecords # << >> ) =>
        usage.monthly_totals[getMonthKey(now)].total_cost
          = sumOfCosts([ k \in 1..Len(SelectSeq(requests.submitted,
                                                LAMBDA c : c.kind = "record")) |->
                           SelectSeq(requests.submitted,
                                     LAMBDA c : c.kind = "record")[k].params ])

(* three calls were submitted and handled out of their order of arrival:   *)
(* the two records, which add up in the month's total, and a tier switch   *)
(* that left its entry                                                     *)
C33_Witness ==
  /\ Len(requests.submitted) = 3
  /\ pendingRequests = {}
  /\ requests.handled[1] > requests.handled[2]
  /\ Len(usage.records) = 2
  /\ usage.records[1].cost_usd # usage.records[2].cost_usd
  /\ usage.monthly_totals[0].total_cost = 9996 + 54
  /\ Len(currentEntries(memory)) = 1

(* C34: while the ledger is blocked, an orchestrate call never moves the  *)
(* current tier to critical, tier2 or tier3, and the only call that does   *)
(* is switch_tier, which carries out every switch to a tier of the         *)
(* strategy whether the ledger is blocked or not.                          *)
C34_OnlySwitchTierRaisesWhileBlocked ==
  /\ [][ ( /\ blockedNow
           /\ currentTier' # currentTier
           /\ currentTier' \in { "critical", "tier2", "tier3" } )
         => last'.op = "switch_tier" ]_vars
  /\ []( ( last.op = "orchestrate" /\ last.result = "ok" /\ last.is_blocked
           /\ last.switched )
         => currentTier \notin { "critical", "tier2", "tier3" } )
  /\ []( last.op = "switch_tier" =>
           /\ last.result = "ok" <=> isValidTier(strategy, last.tier)
           /\ last.result = "ok" => currentTier = last.tier )

(* the ledger is blocked and the tier is tier3, reached by switch_tier;    *)
(* an orchestrate call forced to tier2 moved the tier down to tier1        *)
C34_Witness ==
  /\ last.op = "orchestrate"
  /\ last.is_blocked
  /\ blockedNow
  /\ last.force_tier = "tier2"
  /\ last.switched
  /\ currentTier = "tier1"
  /\ Len(errorWindow) > 0

(* The position of a tier in the escalation order of its strategy *)
tierRank(tier) ==
  IF tier \in { "primary", "tier1" } THEN 1
  ELSE IF tier \in { "critical", "tier2" } THEN 2 ELSE 3

(* An orchestrate call that switches on its own (auto mode on, autoSwitch  *)
(* true, no forced tier, a task that is not blank) is made while the       *)
(* window holds at least threshold errors and the ledger is not blocked    *)
escalatingCall ==
  /\ last'.op = "orchestrate"
  /\ last'.result = "ok"
  /\ last'.force_tier = None
  /\ last'.auto_switch
  /\ autoMode
  /\ rules.error_escalation.enabled
  /\ errorsInWindow >= ErrorThreshold
  /\ ~blockedNow

(* C35 as stated: such a call never lowers the current tier; below the     *)
(* ceiling it raises it by one tier, at the ceiling it leaves it there.    *)
C35_EscalationMonotone ==
  [][ escalatingCall =>
        /\ tierRank(currentTier') >= tierRank(currentTier)
        /\ belowCeiling(strategy, currentTier)
              => currentTier' = oneStepUp(strategy, currentTier)
        /\ ~belowCeiling(strategy, currentTier) => currentTier' = currentTier ]_vars

(* C35 amended: below the ceiling such a call raises the current tier by   *)
(* one tier; at the ceiling the escalation proposes nothing and the call   *)
(* moves the tier to what the other rules resolve, which may be lower.     *)
C35_EscalationClimbsToCeiling ==
  [][ escalatingCall =>
        /\ belowCeiling(strategy, currentTier)
              => /\ currentTier' = oneStepUp(strategy, currentTier)
                 /\ last'.rule_name = "error_escalation"
        /\ ~belowCeiling(strategy, currentTier)
              => /\ last'.rule_name # "error_escalation"
                 /\ currentTier' = last'.target_tier ]_vars

(* three errors in the window, three-tier strategy: two calls climbed from *)
(* tier1 to tier3 and the next call, a simple task, went down to tier1     *)
C35_Witness ==
  /\ last.op = "orchestrate"
  /\ strategy = "3-tier"
  /\ errorsInWindow >= ErrorThreshold
  /\ ~blockedNow
  /\ last.switched
  /\ last.rule_name # "error_escalation"
  /\ currentTier = "tier1"
  /\ Len(currentEntries(memory)) = 3
  /\ currentEntries(memory)[1].tier_used = "tier3"

(* C36: set_auto_mode(enabled, strategy) sets autoMode to enabled; given a *)
(* strategy other than the current one it makes it the strategy and puts   *)
(* the tier at the lowest tier of it; with no strategy or the current one  *)
(* it leaves the tier and the strategy as they were. Nothing else changes. *)
C36_SetAutoModeFrame ==
  [][ last'.op = "set_auto_mode" =>
        /\ autoMode' = last'.enabled
        /\ ( last'.strategy # None /\ last'.strategy # strategy )
              => /\ strategy' = last'.strategy
                 /\ currentTier' = lowestTier(last'.strategy)
        /\ ( last'.strategy = None \/ last'.strategy = strategy )
              => UNCHANGED << currentTier, strategy, ruleStrategy >>
        /\ UNCHANGED << errorWindow, budget, usage, memory >> ]_vars

(* set_auto_mode(false, '2-tier') under the 2-tier strategy while the tier *)
(* was critical: auto mode is off and the tier is still critical           *)
C36_Witness ==
  /\ last.op = "set_auto_mode"
  /\ last.strategy = "2-tier"
  /\ strategy = "2-tier"
  /\ ~last.enabled
  /\ ~autoMode
  /\ last.previous_tier = "critical"
  /\ currentTier = "critical"

(* The tiers of the successful 'general' entries of the active session *)
generalTiers ==
  { currentEntries(memory)[k].tier_used :
      k \in { i \in 1..Len(currentEntries(memory)) :
                 /\ currentEntries(memory)[i].task_pattern = "general"
                 /\ currentEntries(memory)[i].success } }

(* The tasks of category general that no keyword rule and no simple-task  *)
(* pattern matches                                                         *)
UnmatchedGeneralTasks ==
  { t \in Tasks : /\ ~IsBlank[TaskText[t]]
                  /\ PatternOf[TaskText[t]] = "general"
                  /\ MatchingRules[t] = {}
                  /\ t \notin SimpleTasks }

(* C37 as stated: a tier switch is stored as a successful 'general' entry  *)
(* on the new tier; when every successful 'general' entry of the session   *)
(* is on tier X, getRecommendedTier returns X for every task of category   *)
(* general, and classifyTask returns X as memory_based for every such task *)
(* that no keyword rule and no simple-task pattern matches, X being a tier *)
(* of the strategy.                                                        *)
C37_SwitchesFeedGeneral ==
  /\ \A f, t \in Tiers : PatternOf[tierSwitchText(f, t)] = "general"
  /\ \A X \in Tiers :
        generalTiers = { X } =>
          /\ \A t \in Tasks : PatternOf[TaskText[t]] = "general"
                => getRecommendedTier(memory, TaskText[t]) = X
          /\ \A t \in UnmatchedGeneralTasks, tier \in tiersOf(strategy) :
                isValidTier(ruleStrategy, X)
                => /\ classifyTask(TaskText[t], tier).rule_name = "memory_based"
                   /\ classifyTask(TaskText[t], tier).target_tier = X

(* C37 amended: the same, where classifyTask is asked at a tier at which   *)
(* error escalation contributes no match; and every switch_tier that is    *)
(* carried out leaves that entry as the newest of the session.             *)
C37_SwitchesFeedGeneralUnlessEscalated ==
  /\ \A f, t \in Tiers : PatternOf[tierSwitchText(f, t)] = "general"
  /\ ( last.op = "switch_tier" /\ last.result = "ok" ) =>
        /\ currentEntries(memory) # << >>
        /\ currentEntries(memory)[Len(currentEntries(memory))]
             = [ task_pattern |-> "general", tier_used |-> last.tier, success |-> TRUE ]
  /\ \A X \in Tiers :
        generalTiers = { X } =>
          /\ \A t \in Tasks : PatternOf[TaskText[t]] = "general"
                => getRecommendedTier(memory, TaskText[t]) = X
          /\ \A t \in UnmatchedGeneralTasks, tier \in tiersOf(strategy) :
                ( isValidTier(ruleStrategy, X) /\ ~escalates(tier) )
                => /\ classifyTask(TaskText[t], tier).rule_name = "memory_based"
                   /\ classifyTask(TaskText[t], tier).target_tier = X

(* after switch_tier('critical') the session holds the one switch entry    *)
(* and orchestrate('hello') was classified by the memory to critical       *)
C37_Witness ==
  /\ last.op = "orchestrate"
  /\ last.classified
  /\ last.rule_name = "memory_based"
  /\ last.proposed = "critical"
  /\ generalTiers = { "critical" }
  /\ currentTier = "critical"
  /\ errorsInWindow = 0

(* The successful entries a call may write *)
SuccessfulEntries ==
  [ task_pattern : { PatternOf[x] : x \in Texts }, tier_used : Tiers, success : { TRUE } ]

(* C38: every entry of every session is a success, and the summary of the  *)
(* active session reports 100 when it has entries and 0 when it has none;  *)
(* a switch_tier that is carried out writes one successful entry, an       *)
(* orchestrate that switches writes two, every other tool call none.       *)
C38_ToolLayerWritesSuccesses ==
  /\ []( /\ \A i \in 1..Len(memory.sessions) :
              \A k \in 1..Len(memory.sessions[i].entries) :
                 memory.sessions[i].entries[k].success
         /\ getSessionSummary(memory).success_rate
              = IF currentEntries(memory) = << >> THEN 0 ELSE 100
         /\ getSessionSummary(memory).entry_count = Len(currentEntries(memory)) )
  /\ [][ /\ ( last'.op = "switch_tier" /\ last'.result = "ok" ) =>
               \E e \in SuccessfulEntries :
                  currentEntries(memory') =
                    lastOf(Append(currentEntries(memory), e),
                           memory.maxEntriesPerSession)
         /\ ( last'.op = "orchestrate" /\ last'.switched ) =>
               \E e1, e2 \in SuccessfulEntries :
                  currentEntries(memory') =
                    lastOf(currentEntries(memory) \o << e1, e2 >>,
                           memory.maxEntriesPerSession)
         /\ ( \/ last'.op = "switch_tier" /\ last'.result # "ok"
              \/ last'.op = "orchestrate" /\ ~last'.switched
              \/ last'.op \in { "set_auto_mode", "get_status", "set_budget" } )
             => UNCHANGED memory ]_vars

(* a switch_tier and an orchestrate that switched filled the session of    *)
(* three entries, and the summary reports a success rate of 100            *)
C38_Witness ==
  /\ last.op = "orchestrate"
  /\ last.switched
  /\ Len(currentEntries(memory)) = 3
  /\ getSessionSummary(memory).success_rate = 100
  /\ getSessionSummary(memory).entry_count = 3
  /\ DOMAIN getSessionSummary(memory).patterns = { "general", "design" }

(* C39: every recordTask call that was entered returns, whatever the two  *)
(* capacities of the tracker.                                              *)
C39_RecordTaskReturns ==
  ( last.op = "recordTask" /\ ~last.returned )
     ~> ( last.op = "recordTask" /\ last.returned )

(* C40: the strategy of the rule engine equals the strategy of the server *)
(* state in every reachable state, so isValidTier judges a tier by the     *)
(* strategy the server reports; and a step changes either of them only     *)
(* through setStrategy, which changes both to the same value.              *)
C40_StrategiesAgree ==
  /\ []( /\ ruleStrategy = strategy
         /\ \A tier \in Tiers :
               isValidTier(ruleStrategy, tier) <=> tier \in tiersOf(strategy) )
  /\ [][ ( strategy' # strategy \/ ruleStrategy' # ruleStrategy ) =>
           /\ last'.op \in { "setStrategy", "set_auto_mode" }
           /\ strategy' = last'.strategy
           /\ ruleStrategy' = last'.strategy ]_vars

(* set_auto_mode changed the strategy from 2-tier to 3-tier while the tier *)
(* was critical: both strategies are 3-tier and critical is no longer a    *)
(* valid tier                                                              *)
C40_Witness ==
  /\ last.op = "set_auto_mode"
  /\ last.strategy_changed
  /\ last.previous_tier = "critical"
  /\ strategy = "3-tier"
  /\ ruleStrategy = "3-tier"
  /\ ~isValidTier(ruleStrategy, "critical")

====
